---- MODULE Spec2Model ----
(***************************************************************************)
(* Model of the X402 payment handler (webscrapper/x402_payment_handler.py) *)
(* and of the controller that drives it (webscrapper/enhanced_webscraper). *)
(*                                                                         *)
(* Time is counted in hundredths of a second: every duration the handler   *)
(* uses (2.3 s of simulated payment, poll intervals 2 s, 2.4 s, 2.88 s,    *)
(* the 5 s floor, the 30 s timeout, the 60 s window) is a whole number of  *)
(* them.  An optional value (Python None) is the empty sequence, a present *)
(* value x is <<x>>.  A header value or a string that the code searches    *)
(* with "in" is a sequence of tokens.                                      *)
(***************************************************************************)
EXTENDS Integers, Sequences, FiniteSets, TLC

VARIABLES now, payment_address, last_payment_time, last_transaction_id,
          next_tx, calls, fetch, cycle, run, wl,
          breaker

\* The state of the runs that are followed step by step.
others == <<cycle, run, wl, breaker>>

vars == <<now, payment_address, last_payment_time, last_transaction_id,
          next_tx, calls, fetch, others>>

(* ---------------------------- bounds ----------------------------------- *)
MaxNow == 7000
MaxPayments == 2
MaxWaitStart == 0               \* latest start of a first wait called alone

(* ------------------------- program constants --------------------------- *)
None == <<>>
Some(x) == <<x>>

payment_amount == 10            \* 0.01 MOVE, in thousandths of a MOVE
payment_currency == "MOVE"
whitelist_duration == 6000      \* 60 s
DefaultWaitTimeout == 3000      \* wait_for_whitelist(timeout=30)
PaymentDelay == 230             \* 0.5 + 0.5 + 0.3 + 1.0 s of time.sleep
WhitelistFloor == 500           \* "if elapsed >= 5"
FirstInterval == 200            \* check_interval = 2
max_interval == 500             \* max_interval = 5
default_payment_address == "default_payment_address"

(* ------------------------------ inputs --------------------------------- *)
\* Time that passes between two operations of the handler.
TickDeltas == {2999, 3000}

StatusCodes == {200, 402, 403, 500}
AuthValues == {<<>>, <<"Basic", "realm">>, <<"X402-Payment", "required">>}
AddressValues == {None, Some("0x123456789abcdef")}
AmountValues == {None, Some("0.01"), Some("0.02"), Some("abc")}
CurrencyValues == {None, Some("MOVE"), Some("BTC")}

\* A response: its status, the headers the handler reads, and its text.
Resp(s, w, a, m, c) ==
    [status_code |-> s, www_auth |-> w, address |-> a, amount |-> m, currency |-> c,
     text |-> "<html>"]

WellFormed == Resp(402, <<"X402-Payment", "required">>, Some("0x123456789abcdef"),
                   Some("0.01"), Some("MOVE"))

\* The well-formed challenge, the challenges that differ from it in one
\* header, a 402 of another scheme without payment headers, and other statuses.
Responses ==
    {Resp(s, <<>>, None, None, None) : s \in StatusCodes} \cup
    {Resp(402, <<"Basic", "realm">>, None, None, None)} \cup
    {[WellFormed EXCEPT !.www_auth = w] : w \in AuthValues} \cup
    {[WellFormed EXCEPT !.address = a] : a \in AddressValues} \cup
    {[WellFormed EXCEPT !.amount = m] : m \in AmountValues} \cup
    {[WellFormed EXCEPT !.currency = c] : c \in CurrencyValues}

ClientIPs == {"210.212.2.133", "10.0.0.7"}

\* What the verification authority does with one POST /verify.
Authorities == {"verified", "rejected", "http_500", "connection_error",
                "too_many_redirects", "json_not_object"}

(* --------------------------- transaction ids --------------------------- *)
\* A transaction id is a string; the code looks only at its prefix and its
\* length, n stands for the rest of it (the digest).
TxId(n) == [starts_0x |-> TRUE, len |-> 66, n |-> n]       \* "0x" + 64 hex
ShortTx == [starts_0x |-> TRUE, len |-> 5, n |-> 0]        \* "0x123"
InvalidTx == [starts_0x |-> FALSE, len |-> 13, n |-> 0]    \* "invalid_tx_id"

(* ------------------------------ call log ------------------------------- *)
\* One entry per call made during the latest operation, in call order.
\* resp, tx, ip: the arguments; ret: the result; note: how it came about;
\* arg: what else the call was given and met (the authority's behaviour for a
\* verification, the timeout, the start and the sleeps for a wait).
Ev(fn, resp, tx, ip, ret, note) ==
    [fn |-> fn, resp |-> resp, tx |-> tx, ip |-> ip, address |-> "", amount |-> 0,
     ret |-> ret, note |-> note, arg |-> None]

\* The entry of a make_move_payment(address, amount) call.
PayEv(address, amount, tx, ret) ==
    [Ev("make_move_payment", None, tx, "", ret, "") EXCEPT
        !.address = address, !.amount = amount]

\* An entry with the time its call returned.
Stamp(e, t) ==
    [fn |-> e.fn, resp |-> e.resp, tx |-> e.tx, ip |-> e.ip, address |-> e.address,
     amount |-> e.amount, ret |-> e.ret, note |-> e.note, arg |-> e.arg, at |-> t]

Log(c, e) == [c EXCEPT !.calls = Append(@, Stamp(e, c.now))]

BoolStr(b) == IF b THEN "True" ELSE "False"

\* The handler's fields and the clock, threaded through one operation.
Ctx == [now |-> now, lpt |-> last_payment_time, ltx |-> last_transaction_id,
        ntx |-> next_tx, calls |-> <<>>]

Contains(tokens, t) == \E i \in 1..Len(tokens) : tokens[i] = t

Min(a, b) == IF a <= b THEN a ELSE b

(* --------------------------- X402PaymentHandler ------------------------ *)
get_client_ip == "210.212.2.133"

\* The WWW-Authenticate header not looked at.
detect_without_marker_check(response) ==
    IF response.status_code # 402 THEN FALSE
    ELSE IF response.address = None \/ response.amount = None
            \/ response.currency = None THEN FALSE
    ELSE TRUE

detect_payment_required(response) ==
    IF response.status_code # 402 THEN FALSE
    ELSE IF ~Contains(response.www_auth, "X402-Payment") THEN FALSE
    ELSE IF response.address = None \/ response.amount = None
            \/ response.currency = None THEN FALSE
    ELSE TRUE

\* float(): None when the text is not a number (ValueError).
ParseFloat(s) ==
    CASE s = "0.01" -> Some(10)
      [] s = "0.010" -> Some(10)
      [] s = "0.02" -> Some(20)
      [] s = "0.011" -> Some(11)
      [] s = "0.1" -> Some(100)
      [] OTHER -> None

\* The amount of the challenge not compared with the configured one.
extract_without_amount_check(response) ==
    LET bad == [raised |-> TRUE, address |-> "", amount |-> 0, currency |-> ""]
    IN  IF ~detect_payment_required(response) THEN bad
        ELSE LET amt == ParseFloat(response.amount[1])
             IN  IF amt = None THEN bad
                 ELSE IF response.currency[1] # payment_currency THEN bad
                 ELSE [raised |-> FALSE, address |-> response.address[1],
                       amount |-> amt[1], currency |-> response.currency[1]]

\* The currency of the challenge not compared with the configured one.
extract_without_currency_check(response) ==
    LET bad == [raised |-> TRUE, address |-> "", amount |-> 0, currency |-> ""]
    IN  IF ~detect_payment_required(response) THEN bad
        ELSE LET amt == ParseFloat(response.amount[1])
             IN  IF amt = None THEN bad
                 ELSE IF amt[1] # payment_amount THEN bad
                 ELSE [raised |-> FALSE, address |-> response.address[1],
                       amount |-> amt[1], currency |-> response.currency[1]]

extract_payment_details(response) ==
    LET bad == [raised |-> TRUE, address |-> "", amount |-> 0, currency |-> ""]
    IN  IF ~detect_payment_required(response) THEN bad
        ELSE LET amt == ParseFloat(response.amount[1])
             IN  IF amt = None THEN bad
                 ELSE IF amt[1] # payment_amount THEN bad
                 ELSE IF response.currency[1] # payment_currency THEN bad
                 ELSE [raised |-> FALSE, address |-> response.address[1],
                       amount |-> amt[1], currency |-> response.currency[1]]

\* The amount not validated: every call pays.
make_move_payment_unvalidated(c, address, amount, over) ==
    LET t == c.now + PaymentDelay + over
        transaction_id == TxId(c.ntx)
        c1 == [c EXCEPT !.now = t, !.lpt = Some(t),
                        !.ltx = Some(transaction_id), !.ntx = @ + 1]
    IN  [c |-> Log(c1, PayEv(address, amount, Some(transaction_id), "tx")),
         raised |-> FALSE, tx |-> transaction_id]

\* The payment time taken when the call starts, before the transfer.
make_move_payment_time_at_start(c, address, amount, over) ==
    IF amount # payment_amount
    THEN [c |-> Log(c, PayEv(address, amount, None, "raise")),
          raised |-> TRUE, tx |-> InvalidTx]
    ELSE LET t == c.now + PaymentDelay + over
             transaction_id == TxId(c.ntx)
             c1 == [c EXCEPT !.now = t, !.lpt = Some(c.now),
                             !.ltx = Some(transaction_id), !.ntx = @ + 1]
         IN  [c |-> Log(c1, PayEv(address, amount, Some(transaction_id), "tx")),
              raised |-> FALSE, tx |-> transaction_id]

make_move_payment(c, address, amount, over) ==
    IF amount # payment_amount
    THEN [c |-> Log(c, PayEv(address, amount, None, "raise")),
          raised |-> TRUE, tx |-> InvalidTx]
    ELSE LET t == c.now + PaymentDelay + over
             transaction_id == TxId(c.ntx)
             c1 == [c EXCEPT !.now = t, !.lpt = Some(t),
                             !.ltx = Some(transaction_id), !.ntx = @ + 1]
         IN  [c |-> Log(c1, PayEv(address, amount, Some(transaction_id), "tx")),
              raised |-> FALSE, tx |-> transaction_id]

\* The prefix alone looked at.
MockVerificationPrefixOnly(transaction_id) ==
    transaction_id.len > 0 /\ transaction_id.starts_0x

\* "transaction_id and transaction_id.startswith('0x') and len(...) == 66"
MockVerification(transaction_id) ==
    /\ transaction_id.len > 0
    /\ transaction_id.starts_0x
    /\ transaction_id.len = 66

\* The behaviours of the authority that end in a reply with a status that is
\* not 200, and those for which requests.post raises an exception whose text
\* holds "Connection" or "timeout".
Non200Replies == {"http_500", "http_404"}
ConnectionFailures == {"connection_error", "connect_timeout"}

\* The fallback asked also when the authority has answered.
verify_with_fallback_after_rejection(transaction_id, authority) ==
    CASE authority = "verified" ->
            [raised |-> FALSE, value |-> TRUE, path |-> "authority"]
      [] authority = "rejected" \/ authority \in Non200Replies ->
            [raised |-> FALSE, value |-> MockVerification(transaction_id),
             path |-> "fallback"]
      [] authority \in ConnectionFailures ->
            [raised |-> FALSE, value |-> MockVerification(transaction_id),
             path |-> "fallback"]
      [] authority = "too_many_redirects" ->
            [raised |-> FALSE, value |-> FALSE, path |-> "error"]
      [] OTHER ->
            [raised |-> TRUE, value |-> FALSE, path |-> "error"]

\* No fallback: an authority that cannot be reached fails the verification.
verify_without_fallback(transaction_id, authority) ==
    CASE authority = "verified" ->
            [raised |-> FALSE, value |-> TRUE, path |-> "authority"]
      [] authority = "rejected" \/ authority \in Non200Replies ->
            [raised |-> FALSE, value |-> FALSE, path |-> "authority"]
      [] authority \in ConnectionFailures ->
            [raised |-> FALSE, value |-> FALSE, path |-> "error"]
      [] authority = "too_many_redirects" ->
            [raised |-> FALSE, value |-> FALSE, path |-> "error"]
      [] OTHER ->
            [raised |-> TRUE, value |-> FALSE, path |-> "error"]

verify_payment_with_system(transaction_id, authority) ==
    CASE authority = "verified" ->
            [raised |-> FALSE, value |-> TRUE, path |-> "authority"]
      [] authority = "rejected" \/ authority \in Non200Replies ->
            [raised |-> FALSE, value |-> FALSE, path |-> "authority"]
      [] authority \in ConnectionFailures ->
            [raised |-> FALSE, value |-> MockVerification(transaction_id),
             path |-> "fallback"]
      [] authority = "too_many_redirects" ->
            [raised |-> FALSE, value |-> FALSE, path |-> "error"]
      [] OTHER ->
            [raised |-> TRUE, value |-> FALSE, path |-> "error"]

VerifyStep(c, transaction_id, client_ip, authority) ==
    LET v == verify_payment_with_system(transaction_id, authority)
    IN  [c |-> Log(c, [Ev("verify_payment_with_system", None, Some(transaction_id),
                          client_ip,
                          IF v.raised THEN "raise" ELSE BoolStr(v.value), v.path)
                       EXCEPT !.arg = Some(authority)]),
         raised |-> v.raised, value |-> v.value]

\* The loop left one first interval before the timeout.
WithinTimeoutLessOnePoll(t, start_time, timeout) ==
    t - start_time + FirstInterval < timeout

\* "while time.time() - start_time < timeout"
WithinTimeout(t, start_time, timeout) == t - start_time < timeout

\* Success reported at the first poll.
WhitelistReadyAtOnce(elapsed) == elapsed >= 0

\* "if elapsed >= 5"
WhitelistReady(elapsed) == elapsed >= WhitelistFloor

\* The interval doubled after each poll.
NextIntervalDoubled(check_interval) == Min(check_interval * 2, max_interval)

\* "check_interval = min(check_interval * 1.2, max_interval)"
NextInterval(check_interval) == Min((check_interval * 12) \div 10, max_interval)

\* overs[k]: by how much the k-th time.sleep oversleeps.  sleeps: the
\* durations asked of time.sleep, in order.
RECURSIVE wait_loop(_, _, _, _, _, _)
wait_loop(t, start_time, check_interval, timeout, overs, k) ==
    IF WithinTimeout(t, start_time, timeout)
    THEN LET elapsed == t - start_time
         IN  IF WhitelistReady(elapsed)
             THEN [value |-> TRUE, end |-> t, polls |-> k, sleeps |-> <<>>]
             ELSE LET d == Min(check_interval, max_interval)
                      r == wait_loop(t + d
                                       + (IF k + 1 <= Len(overs) THEN overs[k + 1]
                                          ELSE 0),
                                     start_time, NextInterval(check_interval),
                                     timeout, overs, k + 1)
                  IN  [r EXCEPT !.sleeps = <<d>> \o @]
    ELSE [value |-> FALSE, end |-> t, polls |-> k, sleeps |-> <<>>]

\* What a wait entry keeps of its call.
WaitArg(c, timeout, overs, w) ==
    Some([timeout |-> timeout, start |-> c.now, sleeps |-> w.sleeps,
          exact |-> \A i \in 1..Len(w.sleeps) : i > Len(overs) \/ overs[i] = 0])

\* The payment record dropped once the wait is over.
wait_for_whitelist_clearing_record(c, timeout, overs) ==
    LET w == wait_loop(c.now, c.now, FirstInterval, timeout, overs, 0)
    IN  [c |-> Log([c EXCEPT !.now = w.end, !.lpt = None, !.ltx = None],
                   [Ev("wait_for_whitelist", None, None, "", BoolStr(w.value), "")
                    EXCEPT !.arg = WaitArg(c, timeout, overs, w)]),
         value |-> w.value]

wait_for_whitelist(c, timeout, overs) ==
    LET w == wait_loop(c.now, c.now, FirstInterval, timeout, overs, 0)
    IN  [c |-> Log([c EXCEPT !.now = w.end],
                   [Ev("wait_for_whitelist", None, None, "", BoolStr(w.value), "")
                    EXCEPT !.arg = WaitArg(c, timeout, overs, w)]),
         value |-> w.value]

\* The boundary instant itself taken as still valid.
is_whitelist_expired_strict(t, lpt) ==
    IF lpt = None THEN TRUE
    ELSE LET elapsed_time == t - lpt[1]
         IN  elapsed_time > whitelist_duration

is_whitelist_expired(t, lpt) ==
    IF lpt = None THEN TRUE
    ELSE LET elapsed_time == t - lpt[1]
         IN  elapsed_time >= whitelist_duration

\* The branch for a structured challenge left out.
should_trigger_without_challenge_branch(t, lpt, response) ==
    IF response.status_code \in {402, 403}
    THEN IF is_whitelist_expired(t, lpt) THEN TRUE
         ELSE IF response.status_code = 403 THEN TRUE
         ELSE FALSE
    ELSE FALSE

\* Expiry looked at for a 403 only.
should_trigger_expiry_for_403_only(t, lpt, response) ==
    IF response.status_code \in {402, 403}
    THEN IF response.status_code = 403 /\ is_whitelist_expired(t, lpt) THEN TRUE
         ELSE IF response.status_code = 402 /\ detect_payment_required(response)
              THEN TRUE
         ELSE IF response.status_code = 403 THEN TRUE
         ELSE FALSE
    ELSE FALSE

\* Every error status taken as a refusal.
should_trigger_on_any_error_status(t, lpt, response) ==
    IF response.status_code >= 400
    THEN IF is_whitelist_expired(t, lpt) THEN TRUE
         ELSE IF response.status_code = 402 /\ detect_payment_required(response)
              THEN TRUE
         ELSE IF response.status_code = 403 THEN TRUE
         ELSE FALSE
    ELSE FALSE

\* The challenge recognised by the protocol marker alone.
should_trigger_on_marker_alone(t, lpt, response) ==
    IF response.status_code \in {402, 403}
    THEN IF is_whitelist_expired(t, lpt) THEN TRUE
         ELSE IF response.status_code = 402
                 /\ Contains(response.www_auth, "X402-Payment")
              THEN TRUE
         ELSE IF response.status_code = 403 THEN TRUE
         ELSE FALSE
    ELSE FALSE

\* Every 402 taken as a payment challenge.
should_trigger_on_any_402(t, lpt, response) ==
    IF response.status_code \in {402, 403}
    THEN IF is_whitelist_expired(t, lpt) THEN TRUE
         ELSE IF response.status_code = 402 THEN TRUE
         ELSE IF response.status_code = 403 THEN TRUE
         ELSE FALSE
    ELSE FALSE

should_trigger_new_payment(t, lpt, response) ==
    IF response.status_code \in {402, 403}
    THEN IF is_whitelist_expired(t, lpt) THEN TRUE
         ELSE IF response.status_code = 402 /\ detect_payment_required(response)
              THEN TRUE
         ELSE IF response.status_code = 403 THEN TRUE
         ELSE FALSE
    ELSE FALSE


\* What the world does during one payment cycle: the authority's answer and
\* the oversleep of the payment's and of the wait's time.sleep calls.
CycleEnv(authority, pay_over, overs) ==
    [authority |-> authority, pay_over |-> pay_over, overs |-> overs]

\* The wait started before the verification.
PayWaitVerify(c, address, amount, client_ip, env) ==
    LET p == make_move_payment(c, address, amount, env.pay_over)
    IN  IF p.raised THEN [c |-> p.c, ret |-> FALSE, raised |-> TRUE]
        ELSE LET w == wait_for_whitelist(p.c, DefaultWaitTimeout, env.overs)
             IN  IF ~w.value THEN [c |-> w.c, ret |-> FALSE, raised |-> FALSE]
                 ELSE LET v == VerifyStep(w.c, p.tx, client_ip, env.authority)
                      IN  IF v.raised THEN [c |-> v.c, ret |-> FALSE, raised |-> TRUE]
                          ELSE IF ~v.value
                               THEN [c |-> v.c, ret |-> FALSE, raised |-> FALSE]
                          ELSE [c |-> v.c, ret |-> TRUE, raised |-> FALSE]

\* The result of the wait not looked at.
PayVerifyWaitIgnored(c, address, amount, client_ip, env) ==
    LET p == make_move_payment(c, address, amount, env.pay_over)
    IN  IF p.raised THEN [c |-> p.c, ret |-> FALSE, raised |-> TRUE]
        ELSE LET v == VerifyStep(p.c, p.tx, client_ip, env.authority)
             IN  IF v.raised THEN [c |-> v.c, ret |-> FALSE, raised |-> TRUE]
                 ELSE IF ~v.value THEN [c |-> v.c, ret |-> FALSE, raised |-> FALSE]
                 ELSE LET w == wait_for_whitelist(v.c, DefaultWaitTimeout, env.overs)
                      IN  [c |-> w.c, ret |-> TRUE, raised |-> FALSE]

\* A verification that failed asked once more.
PayVerifyWaitRetrying(c, address, amount, client_ip, env) ==
    LET p == make_move_payment(c, address, amount, env.pay_over)
    IN  IF p.raised THEN [c |-> p.c, ret |-> FALSE, raised |-> TRUE]
        ELSE LET v1 == VerifyStep(p.c, p.tx, client_ip, env.authority)
                 v == IF ~v1.raised /\ ~v1.value
                      THEN VerifyStep(v1.c, p.tx, client_ip, env.authority)
                      ELSE v1
             IN  IF v.raised THEN [c |-> v.c, ret |-> FALSE, raised |-> TRUE]
                 ELSE IF ~v.value THEN [c |-> v.c, ret |-> FALSE, raised |-> FALSE]
                 ELSE LET w == wait_for_whitelist(v.c, DefaultWaitTimeout, env.overs)
                      IN  IF ~w.value
                          THEN [c |-> w.c, ret |-> FALSE, raised |-> FALSE]
                          ELSE [c |-> w.c, ret |-> TRUE, raised |-> FALSE]

\* The recorded transaction id verified again instead of a new payment.
PayVerifyWaitReusingId(c, address, amount, client_ip, env) ==
    LET p == IF c.ltx # None
             THEN [c |-> c, raised |-> FALSE, tx |-> c.ltx[1]]
             ELSE make_move_payment(c, address, amount, env.pay_over)
    IN  IF p.raised THEN [c |-> p.c, ret |-> FALSE, raised |-> TRUE]
        ELSE LET v == VerifyStep(p.c, p.tx, client_ip, env.authority)
             IN  IF v.raised THEN [c |-> v.c, ret |-> FALSE, raised |-> TRUE]
                 ELSE IF ~v.value THEN [c |-> v.c, ret |-> FALSE, raised |-> FALSE]
                 ELSE LET w == wait_for_whitelist(v.c, DefaultWaitTimeout, env.overs)
                      IN  IF ~w.value
                          THEN [c |-> w.c, ret |-> FALSE, raised |-> FALSE]
                          ELSE [c |-> w.c, ret |-> TRUE, raised |-> FALSE]

\* The steps both cycles run inside their try block once the challenge is
\* known: pay, verify, wait.  raised: an exception left the block's body.
PayVerifyWait(c, address, amount, client_ip, env) ==
    LET p == make_move_payment(c, address, amount, env.pay_over)
    IN  IF p.raised THEN [c |-> p.c, ret |-> FALSE, raised |-> TRUE]
        ELSE LET v == VerifyStep(p.c, p.tx, client_ip, env.authority)
             IN  IF v.raised THEN [c |-> v.c, ret |-> FALSE, raised |-> TRUE]
                 ELSE IF ~v.value THEN [c |-> v.c, ret |-> FALSE, raised |-> FALSE]
                 ELSE LET w == wait_for_whitelist(v.c, DefaultWaitTimeout, env.overs)
                      IN  IF ~w.value
                          THEN [c |-> w.c, ret |-> FALSE, raised |-> FALSE]
                          ELSE [c |-> w.c, ret |-> TRUE, raised |-> FALSE]

\* No except clause: the exception goes on to the caller.
Reraise(r) == r

\* "except Exception as e: ... return False" around a cycle's body.
Except(r) ==
    IF r.raised THEN [c |-> r.c, ret |-> FALSE, raised |-> FALSE] ELSE r

handle_payment_required(c, response, client_ip, env) ==
    LET payment_details == extract_payment_details(response)
        c1 == Log(c, Ev("extract_payment_details", Some(response), None, "",
                        IF payment_details.raised THEN "raise" ELSE "details", ""))
    IN  Except(IF payment_details.raised
               THEN [c |-> c1, ret |-> FALSE, raised |-> TRUE]
               ELSE PayVerifyWait(c1, payment_details.address,
                                  payment_details.amount, client_ip, env))

\* The address header of the denial response paid when there is one.
handle_expired_whitelist_using_response(c, response, client_ip, env, configured_address) ==
    LET c0 == [c EXCEPT !.lpt = None, !.ltx = None]
    IN  IF response.status_code = 402 /\ detect_payment_required(response)
        THEN handle_payment_required(c0, response, client_ip, env)
        ELSE Except(PayVerifyWait(c0,
                                  IF response.address # None
                                  THEN response.address[1]
                                  ELSE IF configured_address # None
                                  THEN configured_address[1]
                                  ELSE default_payment_address,
                                  payment_amount, client_ip, env))

\* The payment time reset, the transaction id kept.
handle_expired_whitelist_half_reset(c, response, client_ip, env, configured_address) ==
    LET c0 == [c EXCEPT !.lpt = None]
    IN  IF response.status_code = 402 /\ detect_payment_required(response)
        THEN handle_payment_required(c0, response, client_ip, env)
        ELSE Except(PayVerifyWait(c0,
                                  IF configured_address # None
                                  THEN configured_address[1]
                                  ELSE default_payment_address,
                                  payment_amount, client_ip, env))

\* The payment tracking not reset.
handle_expired_whitelist_without_reset(c, response, client_ip, env, configured_address) ==
    LET c0 == c
    IN  IF response.status_code = 402 /\ detect_payment_required(response)
        THEN handle_payment_required(c0, response, client_ip, env)
        ELSE Except(PayVerifyWait(c0,
                                  IF configured_address # None
                                  THEN configured_address[1]
                                  ELSE default_payment_address,
                                  payment_amount, client_ip, env))

handle_expired_whitelist(c, response, client_ip, env, configured_address) ==
    LET c0 == [c EXCEPT !.lpt = None, !.ltx = None]
    IN  IF response.status_code = 402 /\ detect_payment_required(response)
        THEN handle_payment_required(c0, response, client_ip, env)
        ELSE Except(PayVerifyWait(c0,
                                  IF configured_address # None
                                  THEN configured_address[1]
                                  ELSE default_payment_address,
                                  payment_amount, client_ip, env))

(* ------------------------- outcome and window -------------------------- *)
\* The AttemptOutcome of a response, with the two kinds of 402 kept apart.
Classify(response) ==
    CASE response.status_code = 200 -> "Success"
      [] response.status_code = 402 ->
            IF detect_payment_required(response) THEN "PaymentRequired"
            ELSE "PaymentRequiredMalformed"
      [] response.status_code = 403 -> "AccessDenied"
      [] OTHER -> "Other"

\* The access window derived from the current PaymentRecord.
AccessWindow(t, lpt) ==
    IF lpt = None THEN "absent"
    ELSE IF t - lpt[1] >= whitelist_duration THEN "expired"
    ELSE "valid"

(* --------------------------- EnhancedWebScraper ------------------------ *)
\* The headers of the session: the user agent and, when set, the value of
\* the X-Transaction-ID header.
BotHeaders == [user_agent |-> "Python-WebScraper/1.0 (Bot)", proof |-> None]
HumanHeaders == [user_agent |-> "Mozilla/5.0", proof |-> None]

\* The entry of a session.get: the response (None when it raised), and in
\* tx the transaction id the request's headers carried.
GetEv(headers, response, note) ==
    Ev("session.get", response, headers.proof, "",
       IF response = None THEN "raise" ELSE "response", note)

\* "except Exception as e: ... return None" around a strategy's body.
ExceptNone(r) ==
    IF r.raised THEN [c |-> r.c, ret |-> "None", raised |-> FALSE] ELSE r

\* A strategy's result: the text of the response, or "None".
Returned(c, ret) == [c |-> c, ret |-> ret, raised |-> FALSE]
Raised(c) == [c |-> c, ret |-> "None", raised |-> TRUE]

\* response / retry: None when session.get raised.
fetch_with_x402_payment(c, response, env, retry, configured_address) ==
    ExceptNone(
    IF response = None
    THEN Raised(Log(c, GetEv(BotHeaders, None, "")))
    ELSE
    LET r == response[1]
        c1 == Log(c, GetEv(BotHeaders, response, ""))
        client_ip == get_client_ip
        trigger == should_trigger_new_payment(c1.now, c1.lpt, r)
        c2 == Log(c1, Ev("should_trigger_new_payment", response, None, "",
                         BoolStr(trigger), AccessWindow(c1.now, c1.lpt)))
    IN  IF trigger
        THEN LET h == IF r.status_code = 402 /\ detect_payment_required(r)
                      THEN handle_payment_required(
                               Log(c2, Ev("handle_payment_required", response, None,
                                          client_ip, "", "")),
                               r, client_ip, env)
                      ELSE handle_expired_whitelist(
                               Log(c2, Ev("handle_expired_whitelist", response, None,
                                          client_ip, "", "")),
                               r, client_ip, env, configured_address)
             IN  IF h.raised THEN Raised(h.c)
                 ELSE IF h.ret
                 THEN IF retry = None
                      THEN Raised(Log(h.c, GetEv(BotHeaders, None, "retry")))
                      ELSE LET c3 == Log(h.c, GetEv(BotHeaders, retry, "retry"))
                           IN  IF retry[1].status_code = 200
                               THEN Returned(c3, retry[1].text)
                               ELSE Returned(c3, "None")
                 ELSE Returned(h.c, "None")
        ELSE IF r.status_code = 200 THEN Returned(c2, r.text)
        ELSE Returned(c2, "None"))

HumanDelay == 200               \* time.sleep(2)

\* The human headers with the payment verification headers added.
VerifiedHeaders(ltx) == [HumanHeaders EXCEPT !.proof = ltx]

Sleep(c, d) == [c EXCEPT !.now = @ + d]

fetch_with_human_simulation(c, response) ==
    ExceptNone(
    LET c1 == Sleep(c, HumanDelay)
    IN  IF response = None
        THEN Raised(Log(c1, GetEv(HumanHeaders, None, "")))
        ELSE LET c2 == Log(c1, GetEv(HumanHeaders, response, ""))
             IN  IF response[1].status_code = 200
                 THEN Returned(c2, response[1].text)
                 ELSE Returned(c2, "None"))

\* A first response that starts no payment cycle ends in None, a 200 too.
fetch_with_hybrid_approach(c, initial_response, env, retry, configured_address) ==
    ExceptNone(
    IF initial_response = None
    THEN Raised(Log(c, GetEv(BotHeaders, None, "")))
    ELSE
    LET r == initial_response[1]
        c1 == Log(c, GetEv(BotHeaders, initial_response, ""))
        trigger == should_trigger_new_payment(c1.now, c1.lpt, r)
        c2 == Log(c1, Ev("should_trigger_new_payment", initial_response, None, "",
                         BoolStr(trigger), AccessWindow(c1.now, c1.lpt)))
        client_ip == get_client_ip
    IN  IF trigger
        THEN LET h == IF r.status_code = 402 /\ detect_payment_required(r)
                      THEN handle_payment_required(
                               Log(c2, Ev("handle_payment_required", initial_response,
                                          None, client_ip, "", "")),
                               r, client_ip, env)
                      ELSE handle_expired_whitelist(
                               Log(c2, Ev("handle_expired_whitelist", initial_response,
                                          None, client_ip, "", "")),
                               r, client_ip, env, configured_address)
             IN  IF h.raised THEN Raised(h.c)
                 ELSE IF h.ret
                 THEN LET headers == VerifiedHeaders(h.c.ltx)
                          c3 == Sleep(h.c, HumanDelay)
                      IN  IF retry = None
                          THEN Raised(Log(c3, GetEv(headers, None, "retry")))
                          ELSE LET c4 == Log(c3, GetEv(headers, retry, "retry"))
                               IN  IF retry[1].status_code = 200
                                   THEN Returned(c4, retry[1].text)
                                   ELSE Returned(c4, "None")
                 ELSE Returned(h.c, "None")
        ELSE Returned(c2, "None"))


(* ------------------------------- inputs -------------------------------- *)
\* Oversleep of the poll sleeps of one wait_for_whitelist call.
WaitScenarios == {<<0, 0, 0>>, <<2800, 0, 0>>}
ConfiguredAddresses == {None, Some("0x123456789abcdef")}

CycleEnvs == {CycleEnv(a, 0, o) : a \in Authorities, o \in WaitScenarios}

\* Responses a payment cycle is started with.
CycleResponses ==
    {r \in Responses : r.status_code # 402 \/ r.www_auth # <<>>}

\* A 200 whose body is empty.
EmptyPage == [Resp(200, <<>>, None, None, None) EXCEPT !.text = ""]

RetryResponses == {Resp(s, <<>>, None, None, None) : s \in {200, 403}} \cup {EmptyPage}

(* ------------------------------ the state ------------------------------ *)
\* No run of fetch_with_x402_payment is followed step by step.
NoCycle ==
    [pc |-> "idle", response |-> None, handler |-> "", address |-> "", amount |-> 0,
     tx |-> None, start_time |-> 0, check_interval |-> 0, sleeps |-> <<>>,
     exact |-> TRUE, payment_success |-> "None", ret |-> "None"]

\* scraper.py main has not been started.
NoRun == [pc |-> "idle", url |-> "", max_retries |-> 0, client_ip |-> None,
          attempt |-> 0, exit |-> None]

\* Cloudflare holds no rule for the address, no removal is scheduled and the
\* AutomatedScraper has recorded nothing.
NoWhitelist ==
    [pc |-> "idle", rules |-> {}, next_rule |-> 1, timers |-> {},
     current_rule_id |-> None, wake |-> 0, granted |-> <<>>, deletes |-> <<>>,
     ensures |-> 0]

RPC_URLS ==
    <<"https://30732.rpc.thirdweb.com", "https://full.testnet.movementinfra.xyz/v1",
      "https://aptos.testnet.bardock.movementlabs.xyz/v1">>

\* The PaywallBreaker is connected to the first endpoint of RPC_URLS.
FirstEndpoint == [rpc_url |-> RPC_URLS[1]]

OthersIdle ==
    /\ cycle = NoCycle /\ run = NoRun
    /\ wl = NoWhitelist /\ breaker = FirstEndpoint

\* EnhancedWebScraper.fetch is not running.
NoFetch ==
    [pc |-> "idle", attempt |-> 0, strategy |-> 0, delays |-> 0, paid |-> 0,
     ret |-> "None"]

Init ==
    /\ now = 0
    /\ payment_address \in ConfiguredAddresses
    /\ last_payment_time = None
    /\ last_transaction_id = None
    /\ next_tx = 0
    /\ calls = <<>>
    /\ fetch = NoFetch
    /\ OthersIdle

\* The caller is between two operations.
Idle == calls = <<>>

\* The caller has just been given a decision by should_trigger_new_payment.
Decided ==
    calls # <<>> /\ calls[Len(calls)].fn = "should_trigger_new_payment"

InBounds(c) == c.now <= MaxNow /\ c.ntx <= MaxPayments

\* Write back the handler's fields and the clock after an operation; the
\* operation's own entry closes its call log.
WriteBack(c, last) ==
    /\ now' = c.now
    /\ last_payment_time' = c.lpt
    /\ last_transaction_id' = c.ltx
    /\ next_tx' = c.ntx
    /\ calls' = Append(c.calls, Stamp(last, c.now))
    /\ UNCHANGED <<payment_address, others>>

Commit(c, last) ==
    /\ InBounds(c)
    /\ WriteBack(c, last)
    /\ UNCHANGED fetch

\* The caller drops the result and the call log of the latest operation.
NextCall ==
    /\ ~Idle
    /\ calls' = <<>>
    /\ UNCHANGED <<now, payment_address, last_payment_time, last_transaction_id,
                   next_tx, fetch, others>>

Tick ==
    \E d \in TickDeltas :
        /\ Idle \/ Decided
        /\ now + d <= MaxNow
        /\ now' = now + d
        /\ UNCHANGED <<payment_address, last_payment_time, last_transaction_id,
                       next_tx, calls, fetch, others>>

IsWhitelistExpired ==
    /\ Idle
    /\ Commit(Ctx, Ev("is_whitelist_expired", None, None, "",
                      BoolStr(is_whitelist_expired(now, last_payment_time)), ""))

\* The entry's note is the access window the decision was taken in.
ShouldTriggerNewPayment ==
    \E r \in Responses :
        /\ Idle \/ Decided
        /\ Commit(Ctx, Ev("should_trigger_new_payment", Some(r), None, "",
                          BoolStr(should_trigger_new_payment(now, last_payment_time, r)),
                          AccessWindow(now, last_payment_time)))

HandlePaymentRequired ==
    \E r \in CycleResponses, ip \in ClientIPs, env \in CycleEnvs :
        LET h == handle_payment_required(Ctx, r, ip, env)
        IN  /\ Idle
            /\ Commit(h.c, Ev("handle_payment_required", Some(r), None, ip,
                              IF h.raised THEN "raise" ELSE BoolStr(h.ret), ""))

HandleExpiredWhitelist ==
    \E r \in CycleResponses, ip \in ClientIPs, env \in CycleEnvs :
        LET h == handle_expired_whitelist(Ctx, r, ip, env, payment_address)
        IN  /\ Idle
            /\ Commit(h.c, Ev("handle_expired_whitelist", Some(r), None, ip,
                              IF h.raised THEN "raise" ELSE BoolStr(h.ret), ""))

FetchWithX402Payment ==
    \E response \in {None} \cup {Some(r) : r \in CycleResponses},
       env \in CycleEnvs,
       retry \in {None} \cup {Some(r) : r \in RetryResponses} :
        LET f == fetch_with_x402_payment(Ctx, response, env, retry, payment_address)
        IN  /\ Idle
            /\ Commit(f.c, Ev("fetch_with_x402_payment", None, None, "",
                              IF f.raised THEN "raise" ELSE f.ret, ""))

Next ==
    \/ NextCall
    \/ Tick
    \/ IsWhitelistExpired
    \/ ShouldTriggerNewPayment
    \/ HandlePaymentRequired
    \/ HandleExpiredWhitelist
    \/ FetchWithX402Payment

Spec == Init /\ [][Next]_vars

(* ------------------------ EnhancedWebScraper.fetch --------------------- *)
MAX_RETRIES == 3
RETRY_DELAY == 100              \* 1 s
NumStrategies == 3

\* "if result:" - None and the empty text are both false.
Truthy(result) == result # "None" /\ result # ""

\* The loop not left when a strategy has returned content.
AfterStrategyGoingOn(f, result) ==
    IF f.strategy < NumStrategies THEN [f EXCEPT !.strategy = @ + 1, !.ret = result]
    ELSE [f EXCEPT !.pc = "round_end"]

\* Where the loop goes after a strategy has returned.
AfterStrategy(f, result) ==
    IF Truthy(result) THEN [f EXCEPT !.pc = "done", !.ret = result]
    ELSE IF f.strategy < NumStrategies THEN [f EXCEPT !.strategy = @ + 1]
    ELSE [f EXCEPT !.pc = "round_end"]

\* The sleep taken after every round, the last one too.
EndOfRoundAlwaysSleeps(attempt) ==
    [sleep |-> RETRY_DELAY, more |-> attempt + 1 < MAX_RETRIES]

\* The end of round number attempt: the sleep before the next round, and
\* whether range(MAX_RETRIES) has a next round.
EndOfRound(attempt) ==
    [sleep |-> IF attempt < MAX_RETRIES - 1 THEN RETRY_DELAY ELSE 0,
     more |-> attempt + 1 < MAX_RETRIES]

\* The handler at the start of a run of fetch: no payment made yet, or one
\* payment made at time 0.
FetchStartTimes == {0, 6500}
FetchResponses ==
    {None, Some(Resp(200, <<>>, None, None, None)), Some(EmptyPage),
     Some(Resp(403, <<>>, None, None, None)), Some(WellFormed)}
FetchEnvs == {CycleEnv(a, 0, <<0, 0, 0>>) : a \in {"verified", "rejected"}}
FetchRetries == {Some(Resp(st, <<>>, None, None, None)) : st \in {200, 403}}

InitFetch ==
    /\ now \in FetchStartTimes
    /\ payment_address \in ConfiguredAddresses
    /\ \/ last_payment_time = None /\ last_transaction_id = None /\ next_tx = 0
       \/ /\ last_payment_time = Some(0)
          /\ last_transaction_id = Some(TxId(0))
          /\ next_tx = 1
    /\ calls = <<>>
    /\ fetch = NoFetch
    /\ OthersIdle

FetchStart ==
    /\ fetch.pc = "idle"
    /\ fetch' = [pc |-> IF 0 < MAX_RETRIES THEN "strategy" ELSE "done",
                 attempt |-> 0, strategy |-> 1, delays |-> 0, paid |-> 0,
                 ret |-> "None"]
    /\ UNCHANGED <<now, payment_address, last_payment_time, last_transaction_id,
                   next_tx, calls, others>>

\* One strategy of the current round has run; s is what it returned.  paid
\* counts the payments executed since fetch was called.
StrategyStep(name, s) ==
    /\ WriteBack(s.c,
                 Ev(name, None, None, "", IF s.raised THEN "raise" ELSE s.ret, ""))
    /\ fetch' = AfterStrategy([fetch EXCEPT !.paid = @ + (s.c.ntx - next_tx)],
                              IF s.raised THEN "None" ELSE s.ret)

FetchHuman ==
    \E response \in FetchResponses :
        /\ fetch.pc = "strategy" /\ fetch.strategy = 1
        /\ StrategyStep("fetch_with_human_simulation",
                        fetch_with_human_simulation(Ctx, response))

FetchX402 ==
    \E response \in FetchResponses, env \in FetchEnvs, retry \in FetchRetries :
        /\ fetch.pc = "strategy" /\ fetch.strategy = 2
        /\ StrategyStep("fetch_with_x402_payment",
                        fetch_with_x402_payment(Ctx, response,
                                                env, retry, payment_address))

FetchHybrid ==
    \E response \in FetchResponses, env \in FetchEnvs, retry \in FetchRetries :
        /\ fetch.pc = "strategy" /\ fetch.strategy = 3
        /\ StrategyStep("fetch_with_hybrid_approach",
                        fetch_with_hybrid_approach(Ctx, response,
                                                   env, retry, payment_address))

FetchRoundEnd ==
    LET e == EndOfRound(fetch.attempt)
    IN  /\ fetch.pc = "round_end"
        /\ now' = now + e.sleep
        /\ fetch' = [fetch EXCEPT
                        !.pc = IF e.more THEN "strategy" ELSE "done",
                        !.attempt = @ + 1,
                        !.strategy = 1,
                        !.delays = IF e.sleep > 0 THEN @ + 1 ELSE @]
        /\ UNCHANGED <<payment_address, last_payment_time, last_transaction_id,
                       next_tx, calls, others>>

NextFetch ==
    \/ FetchStart
    \/ FetchHuman
    \/ FetchX402
    \/ FetchHybrid
    \/ FetchRoundEnd

(* ------------------- the handler's operations called alone ------------- *)
UnitAmountValues == AmountValues \cup {Some("0.010"), Some("0.011"), Some("0.1")}
UnitCurrencyValues == CurrencyValues \cup {Some("MOVe"), Some("move")}

\* Every combination of the four headers on a 402, and the other statuses
\* with the headers of the well-formed challenge or with none.
UnitResponses ==
    {Resp(402, w, a, m, cu) : w \in AuthValues, a \in AddressValues,
                              m \in UnitAmountValues, cu \in UnitCurrencyValues}
    \cup {[WellFormed EXCEPT !.status_code = st] : st \in StatusCodes}
    \cup {Resp(st, <<>>, None, None, None) : st \in StatusCodes}

PayAddresses == {"0x123456789abcdef", default_payment_address}
PayAmounts == {payment_amount, 0, 11, 20}
PayOversleeps == {0, 5}

DetectPaymentRequired ==
    \E r \in UnitResponses :
        /\ Idle
        /\ Commit(Ctx, Ev("detect_payment_required", Some(r), None, "",
                          BoolStr(detect_payment_required(r)), ""))

\* The entry carries the address and the amount of the returned details.
ExtractPaymentDetails ==
    \E r \in UnitResponses :
        LET x == extract_payment_details(r)
        IN  /\ Idle
            /\ Commit(Ctx, [Ev("extract_payment_details", Some(r), None, "",
                               IF x.raised THEN "raise" ELSE "details", x.currency)
                            EXCEPT !.address = x.address, !.amount = x.amount])

\* make_move_payment logs its own entry, which closes the call log.
MakeMovePayment ==
    \E address \in PayAddresses, amount \in PayAmounts, over \in PayOversleeps :
        LET p == make_move_payment(Ctx, address, amount, over)
        IN  /\ Idle
            /\ InBounds(p.c)
            /\ now' = p.c.now
            /\ last_payment_time' = p.c.lpt
            /\ last_transaction_id' = p.c.ltx
            /\ next_tx' = p.c.ntx
            /\ calls' = p.c.calls
            /\ UNCHANGED <<payment_address, fetch, others>>

NextUnits ==
    \/ NextCall
    \/ DetectPaymentRequired
    \/ ExtractPaymentDetails
    \/ MakeMovePayment

SpecUnits == Init /\ [][NextUnits]_vars

(* --------------- verification and wait called alone -------------------- *)
LongTx == [starts_0x |-> TRUE, len |-> 67, n |-> 0]           \* one character more
UnprefixedTx == [starts_0x |-> FALSE, len |-> 66, n |-> 0]    \* 66 characters, no "0x"
EmptyTx == [starts_0x |-> FALSE, len |-> 0, n |-> 0]          \* ""

VerifyTxIds == {TxId(0), ShortTx, InvalidTx, LongTx, UnprefixedTx, EmptyTx}
VerifyAuthorities == Authorities \cup Non200Replies \cup ConnectionFailures

WaitTimeouts == {-100, 0, 200, 300, 500, 600, 1000, DefaultWaitTimeout}
WaitOversleeps == WaitScenarios \cup {<<300, 0, 0>>}

\* A handler that has made no payment, or one payment at time 0.
InitSteps ==
    /\ now = 0
    /\ payment_address \in ConfiguredAddresses
    /\ \/ last_payment_time = None /\ last_transaction_id = None /\ next_tx = 0
       \/ /\ last_payment_time = Some(0)
          /\ last_transaction_id = Some(TxId(0))
          /\ next_tx = 1
    /\ calls = <<>>
    /\ fetch = NoFetch
    /\ OthersIdle

\* The entry that the call logs closes the call log.
VerifyPaymentWithSystem ==
    \E transaction_id \in VerifyTxIds, ip \in ClientIPs, authority \in VerifyAuthorities :
        LET v == VerifyStep(Ctx, transaction_id, ip, authority)
        IN  /\ Idle
            /\ InBounds(v.c)
            /\ now' = v.c.now
            /\ last_payment_time' = v.c.lpt
            /\ last_transaction_id' = v.c.ltx
            /\ next_tx' = v.c.ntx
            /\ calls' = v.c.calls
            /\ UNCHANGED <<payment_address, fetch, others>>

\* A wait, or a second wait right after a first one; the call log then holds
\* both.
WaitForWhitelist ==
    \E timeout \in WaitTimeouts, overs \in WaitOversleeps :
        LET w == wait_for_whitelist([Ctx EXCEPT !.calls = calls], timeout, overs)
        IN  /\ \/ Idle /\ now <= MaxWaitStart
               \/ Len(calls) = 1 /\ calls[1].fn = "wait_for_whitelist"
            /\ InBounds(w.c)
            /\ now' = w.c.now
            /\ last_payment_time' = w.c.lpt
            /\ last_transaction_id' = w.c.ltx
            /\ next_tx' = w.c.ntx
            /\ calls' = w.c.calls
            /\ UNCHANGED <<payment_address, fetch, others>>

NextSteps ==
    \/ NextCall
    \/ VerifyPaymentWithSystem
    \/ WaitForWhitelist

SpecSteps == InitSteps /\ [][NextSteps]_vars

SpecFetch == InitFetch /\ [][NextFetch]_vars

\* The loop is a sequential program: it takes its next step.
LiveFetch == SpecFetch /\ WF_vars(NextFetch)


(* -------------- fetch_with_x402_payment followed step by step ---------- *)
\* The longest oversleep of one time.sleep of the wait, and the longest time
\* one run can take: the payment, and a wait whose last sleep began just
\* before the floor.
MaxOversleep == 2800
PollOversleeps == {0, MaxOversleep}
CycleBudget == PaymentDelay + WhitelistFloor + max_interval + MaxOversleep

X402Responses ==
    {None, Some(WellFormed), Some([WellFormed EXCEPT !.amount = Some("0.010")]),
     Some([WellFormed EXCEPT !.amount = Some("0.02")]),
     Some([WellFormed EXCEPT !.www_auth = <<"Basic", "realm">>]),
     Some(Resp(403, <<>>, None, None, None)), Some(Resp(200, <<>>, None, None, None))}
X402Authorities == {"verified", "rejected", "connection_error", "connect_timeout",
                    "json_not_object"}
X402Retries == {None} \cup {Some(r) : r \in RetryResponses}

\* No payment made yet, a payment made just now, or one made 60 s ago.
InitX402 ==
    /\ now = 0
    /\ payment_address \in ConfiguredAddresses
    /\ \/ last_payment_time = None /\ last_transaction_id = None /\ next_tx = 0
       \/ /\ last_payment_time \in {Some(0), Some(0 - whitelist_duration)}
          /\ last_transaction_id = Some(TxId(0))
          /\ next_tx = 1
    /\ calls = <<>>
    /\ fetch = NoFetch
    /\ OthersIdle

\* The handler's fields and the clock, with the call log of the run so far.
Running == [Ctx EXCEPT !.calls = calls]

CycleStore(c) ==
    /\ now' = c.now
    /\ last_payment_time' = c.lpt
    /\ last_transaction_id' = c.ltx
    /\ next_tx' = c.ntx
    /\ calls' = c.calls
    /\ UNCHANGED <<payment_address, fetch, run, wl, breaker>>

\* The payment cycle returns value to fetch_with_x402_payment.
CycleReturns(c, value) ==
    /\ CycleStore(Log(c, Ev(cycle.handler, cycle.response, None, get_client_ip,
                            BoolStr(value), "")))
    /\ cycle' = [cycle EXCEPT !.pc = "after", !.payment_success = BoolStr(value)]

\* fetch_with_x402_payment returns ret.
X402Returns(c, ret) ==
    /\ CycleStore(Log(c, Ev("fetch_with_x402_payment", None, None, "", ret, "")))
    /\ cycle' = [cycle EXCEPT !.pc = "done", !.ret = ret]

X402Get ==
    \E response \in X402Responses :
        /\ cycle.pc = "idle"
        /\ now + CycleBudget <= MaxNow
        /\ next_tx < MaxPayments
        /\ LET c == Log(Running, GetEv(BotHeaders, response, ""))
           IN  IF response = None
               THEN X402Returns(c, "None")
               ELSE /\ CycleStore(c)
                    /\ cycle' = [cycle EXCEPT !.pc = "decide", !.response = response]

X402Decide ==
    LET r == cycle.response[1]
        trigger == should_trigger_new_payment(now, last_payment_time, r)
        c == Log(Running, Ev("should_trigger_new_payment", cycle.response, None, "",
                             BoolStr(trigger), AccessWindow(now, last_payment_time)))
    IN  /\ cycle.pc = "decide"
        /\ IF trigger
           THEN /\ CycleStore(c)
                /\ cycle' = IF r.status_code = 402 /\ detect_payment_required(r)
                            THEN [cycle EXCEPT !.pc = "extract",
                                               !.handler = "handle_payment_required"]
                            ELSE [cycle EXCEPT !.pc = "reset",
                                               !.handler = "handle_expired_whitelist"]
           ELSE X402Returns(c, IF r.status_code = 200 THEN r.text ELSE "None")

\* handle_expired_whitelist up to its try block.
X402Reset ==
    LET r == cycle.response[1]
    IN  /\ cycle.pc = "reset"
        /\ CycleStore([Running EXCEPT !.lpt = None, !.ltx = None])
        /\ cycle' = IF r.status_code = 402 /\ detect_payment_required(r)
                    THEN [cycle EXCEPT !.pc = "extract"]
                    ELSE [cycle EXCEPT !.pc = "pay",
                                       !.address = IF payment_address # None
                                                   THEN payment_address[1]
                                                   ELSE default_payment_address,
                                       !.amount = payment_amount]

X402Extract ==
    LET payment_details == extract_payment_details(cycle.response[1])
        c == Log(Running, Ev("extract_payment_details", cycle.response, None, "",
                             IF payment_details.raised THEN "raise" ELSE "details", ""))
    IN  /\ cycle.pc = "extract"
        /\ IF payment_details.raised
           THEN CycleReturns(c, FALSE)
           ELSE /\ CycleStore(c)
                /\ cycle' = [cycle EXCEPT !.pc = "pay",
                                          !.address = payment_details.address,
                                          !.amount = payment_details.amount]

X402Pay ==
    LET p == make_move_payment(Running, cycle.address, cycle.amount, 0)
    IN  /\ cycle.pc = "pay"
        /\ IF p.raised
           THEN CycleReturns(p.c, FALSE)
           ELSE /\ CycleStore(p.c)
                /\ cycle' = [cycle EXCEPT !.pc = "verify", !.tx = Some(p.tx)]

X402Verify ==
    \E authority \in X402Authorities :
        LET v == VerifyStep(Running, cycle.tx[1], get_client_ip, authority)
        IN  /\ cycle.pc = "verify"
            /\ IF v.raised \/ ~v.value
               THEN CycleReturns(v.c, FALSE)
               ELSE /\ CycleStore(v.c)
                    /\ cycle' = [cycle EXCEPT !.pc = "wait",
                                              !.start_time = now,
                                              !.check_interval = FirstInterval,
                                              !.sleeps = <<>>,
                                              !.exact = TRUE]

\* One turn of the loop of wait_for_whitelist.
X402Poll ==
    \E over \in PollOversleeps :
        LET arg == Some([timeout |-> DefaultWaitTimeout, start |-> cycle.start_time,
                         sleeps |-> cycle.sleeps, exact |-> cycle.exact])
            waited(value) ==
                Log(Running, [Ev("wait_for_whitelist", None, None, "",
                                 BoolStr(value), "") EXCEPT !.arg = arg])
            d == Min(cycle.check_interval, max_interval)
        IN  /\ cycle.pc = "wait"
            /\ IF ~WithinTimeout(now, cycle.start_time, DefaultWaitTimeout)
               THEN CycleReturns(waited(FALSE), FALSE)
               ELSE IF WhitelistReady(now - cycle.start_time)
               THEN CycleReturns(waited(TRUE), TRUE)
               ELSE /\ CycleStore([Running EXCEPT !.now = @ + d + over])
                    /\ cycle' = [cycle EXCEPT
                                    !.check_interval = NextInterval(@),
                                    !.sleeps = Append(@, d),
                                    !.exact = @ /\ over = 0]

\* The request retried whatever the payment cycle returned.
X402AfterAlwaysRetrying ==
    /\ cycle.pc = "after"
    /\ cycle' = [cycle EXCEPT !.pc = "retry"]
    /\ UNCHANGED <<now, payment_address, last_payment_time,
                   last_transaction_id, next_tx, calls, fetch, run, wl, breaker>>

\* "if payment_success:"
X402After ==
    /\ cycle.pc = "after"
    /\ IF cycle.payment_success = "True"
       THEN /\ cycle' = [cycle EXCEPT !.pc = "retry"]
            /\ UNCHANGED <<now, payment_address, last_payment_time,
                           last_transaction_id, next_tx, calls, fetch, run, wl, breaker>>
       ELSE X402Returns(Running, "None")

X402Retry ==
    \E retry \in X402Retries :
        LET c == Log(Running, GetEv(BotHeaders, retry, "retry"))
        IN  /\ cycle.pc = "retry"
            /\ X402Returns(c, IF retry # None /\ retry[1].status_code = 200
                              THEN retry[1].text ELSE "None")

\* The caller takes the result; the next run starts with an empty call log.
X402Again ==
    /\ cycle.pc = "done"
    /\ cycle' = NoCycle
    /\ calls' = <<>>
    /\ UNCHANGED <<now, payment_address, last_payment_time, last_transaction_id,
                   next_tx, fetch, run, wl, breaker>>

NextX402 ==
    \/ X402Get
    \/ X402Decide
    \/ X402Reset
    \/ X402Extract
    \/ X402Pay
    \/ X402Verify
    \/ X402Poll
    \/ X402After
    \/ X402Retry
    \/ X402Again

SpecX402 == InitX402 /\ [][NextX402]_vars

\* The run is a sequential program: it takes its next step.
LiveX402 == SpecX402 /\ WF_vars(NextX402)


(* ------------------- buy_access (scraper.py and the SDK) --------------- *)
\* The body of a reply of the access server as response.json() gives it:
\* "invalid" (json() raises), "list" (JSON that is not an object), or "dict"
\* with the value of its 'accepts' key (None when there is none).
Json(kind, accepts) == [kind |-> kind, accepts |-> accepts]

\* One entry of 'accepts'; isdict is false for an entry that is not an object.
PaymentOption(payTo, maxAmountRequired) ==
    [isdict |-> TRUE, payTo |-> payTo, maxAmountRequired |-> maxAmountRequired]
NotAnObject == [isdict |-> FALSE, payTo |-> None, maxAmountRequired |-> None]

\* The outcome of a requests.post: a reply of the access server, or the
\* exception it raises ("timeout" for requests.exceptions.Timeout).
Reply(status_code, json) ==
    [raises |-> "", status_code |-> status_code, json |-> json]
Raises(exception) ==
    [raises |-> exception, status_code |-> 0, json |-> Json("invalid", None)]

\* "not x" for an optional text: absent or empty.
Falsy(x) == x = None \/ x[1] = ""

\* int(): None when the text is not a whole number (ValueError).
ParseInt(s) ==
    CASE s = "1000000" -> Some(1000000)
      [] s = "1" -> Some(1)
      [] s = "0" -> Some(0)
      [] OTHER -> None

ConfirmationDelay == 300        \* time.sleep(3)

\* The entry of a requests.post: the reply (None when it raised), in tx the
\* hash its proof headers carried, in note which of the two requests it was.
PostEv(outcome, proof, note) ==
    IF outcome.raises # ""
    THEN Ev("requests.post", None, proof, "", "raise", note)
    ELSE Ev("requests.post", Some(outcome), proof, "", "response", note)

\* The entry of a make_blockchain_payment(address, amount) call.
ChainPayEv(address, amount, tx) ==
    [Ev("make_blockchain_payment", None, tx, "",
        IF tx = None THEN "raise" ELSE "tx", "") EXCEPT
        !.address = address, !.amount = amount]

\* What the world does during one buy_access: the outcome of the first
\* request, of the payment (None: it raises) and of the second request.
BuyEnv(first, payment, second) ==
    [first |-> first, payment |-> payment, second |-> second]

\* "if not payment_address or not amount_move: return False" (negated)
UsablePaymentData(pay_to, amount_move) ==
    ~Falsy(pay_to) /\ amount_move # None /\ amount_move[1] # 0

\* "data = response.json()" and the data.get calls on a 200: they raise for
\* a body that is not a JSON object.
GrantedBody(c, response) ==
    IF response.json.kind = "dict"
    THEN [c |-> c, ret |-> TRUE, raised |-> FALSE]
    ELSE [c |-> c, ret |-> FALSE, raised |-> TRUE]

Failed(c) == [c |-> c, ret |-> FALSE, raised |-> FALSE]
Broke(c) == [c |-> c, ret |-> FALSE, raised |-> TRUE]

\* Access taken as granted once the payment is made, whatever the reply.
AfterPaymentAlwaysGranted(c, response) == [c |-> c, ret |-> TRUE, raised |-> FALSE]

\* "if response.status_code == 200: ... return True / else: ... return False"
\* for the reply to the request that carried the proof.
AfterPayment(c, response) ==
    IF response.status_code = 200 THEN GrantedBody(c, response) ELSE Failed(c)

\* scraper.py: the branch taken for a first reply with status 402.
buy_access_after_402(c, response, env) ==
    LET payment_data == response.json
    IN  IF payment_data.kind # "dict" THEN Broke(c)
        ELSE
        LET accepts == IF payment_data.accepts = None THEN <<>>
                       ELSE payment_data.accepts[1]
        IN  IF Len(accepts) = 0 THEN Failed(c)
            ELSE
            LET payment_option == accepts[1]
                pay_to == payment_option.payTo
                max_amount_octas == payment_option.maxAmountRequired
                parsed == IF Falsy(max_amount_octas) THEN None
                          ELSE ParseInt(max_amount_octas[1])
            IN  IF ~payment_option.isdict THEN Broke(c)
                ELSE IF ~Falsy(max_amount_octas) /\ parsed = None THEN Broke(c)
                ELSE
                LET amount_move == parsed
                IN  IF ~UsablePaymentData(pay_to, amount_move) THEN Failed(c)
                    ELSE
                    LET tx_hash == env.payment
                        c1 == Log(c, ChainPayEv(pay_to[1], amount_move[1],
                                                tx_hash))
                    IN  IF tx_hash = None THEN Broke(c1)
                        ELSE
                        LET c2 == Log(Sleep(c1, ConfirmationDelay),
                                      PostEv(env.second, tx_hash, "retry"))
                        IN  IF env.second.raises # "" THEN Broke(c2)
                            ELSE AfterPayment(c2, env.second)

\* scraper.py buy_access; both except clauses return False.
buy_access(c, env) ==
    Except(
    LET c1 == Log(c, PostEv(env.first, None, "first"))
    IN  IF env.first.raises # "" THEN Broke(c1)
        ELSE IF env.first.status_code = 402
        THEN buy_access_after_402(c1, env.first, env)
        ELSE IF env.first.status_code = 200 THEN GrantedBody(c1, env.first)
        ELSE Failed(c1))

\* PaymentClient.process_402_payment: the hash, or None.
process_402_payment(c, payment_data, env) ==
    LET none(cc) == [c |-> cc, tx |-> None]
    IN  IF payment_data.kind # "dict" THEN none(c)
        ELSE
        LET accepts == IF payment_data.accepts = None THEN <<>>
                       ELSE payment_data.accepts[1]
        IN  IF Len(accepts) = 0 THEN none(c)
            ELSE
            LET payment_option == accepts[1]
                pay_to == payment_option.payTo
                max_amount_octas == payment_option.maxAmountRequired
            IN  IF ~payment_option.isdict THEN none(c)
                ELSE IF Falsy(pay_to) \/ Falsy(max_amount_octas) THEN none(c)
                ELSE IF ParseInt(max_amount_octas[1]) = None THEN none(c)
                ELSE
                LET c1 == Log(c, ChainPayEv(pay_to[1],
                                            ParseInt(max_amount_octas[1])[1],
                                            env.payment))
                IN  IF env.payment = None THEN none(c1)
                    ELSE [c |-> Sleep(c1, ConfirmationDelay), tx |-> env.payment]

\* BotPaywallClient.buy_access; ret is the 'success' field of its result.
\* scraper_ip: the argument; detected: what detect_public_ip returns.
client_buy_access(c, scraper_ip, detected, env) ==
    Except(
    LET ip == IF Falsy(scraper_ip) THEN detected ELSE scraper_ip
    IN  IF Falsy(ip) THEN Failed(c)
        ELSE
        LET c1 == Log(c, PostEv(env.first, None, "first"))
        IN  IF env.first.raises # "" THEN Broke(c1)
            ELSE IF env.first.status_code = 402
            THEN IF env.first.json.kind = "invalid" THEN Broke(c1)
                 ELSE
                 LET p == process_402_payment(c1, env.first.json, env)
                 IN  IF p.tx = None THEN Failed(p.c)
                     ELSE
                     LET c2 == Log(p.c, PostEv(env.second, p.tx, "retry"))
                     IN  IF env.second.raises # "" THEN Broke(c2)
                         ELSE AfterPayment(c2, env.second)
            ELSE IF env.first.status_code = 200 THEN GrantedBody(c1, env.first)
            ELSE Failed(c1))

PayToValues == {None, Some(""), Some("0xpay")}
MaxAmountValues == {None, Some(""), Some("0"), Some("abc"), Some("1000000")}

\* The bodies of a 402 of the access server.
ChallengeBodies ==
    {Json("invalid", None), Json("list", None), Json("dict", None),
     Json("dict", Some(<<>>)), Json("dict", Some(<<NotAnObject>>)),
     Json("dict", Some(<<PaymentOption(Some("0xpay"), Some("1000000")),
                         PaymentOption(Some("0xother"), Some("1"))>>))}
    \cup {Json("dict", Some(<<PaymentOption(p, m)>>)) :
             p \in PayToValues, m \in MaxAmountValues}

FirstOutcomes ==
    {Raises("timeout"), Raises("connection_error"), Reply(200, Json("dict", None)),
     Reply(200, Json("invalid", None)), Reply(200, Json("list", None)),
     Reply(500, Json("invalid", None))}
    \cup {Reply(402, b) : b \in ChallengeBodies}

PaymentOutcomes == {None, Some("0xhash")}

SecondOutcomes ==
    {Raises("timeout"), Raises("connection_error"), Reply(200, Json("dict", None)),
     Reply(200, Json("invalid", None)), Reply(500, Json("dict", None)),
     Reply(402, Json("dict", Some(<<PaymentOption(Some("0xpay"), Some("1000000"))>>)))}

BuyEnvs ==
    {BuyEnv(f, p, s) : f \in FirstOutcomes, p \in PaymentOutcomes, s \in SecondOutcomes}

ScraperIPs == {None, Some("203.0.113.5")}

BuyAccess ==
    \E env \in BuyEnvs :
        LET b == buy_access(Ctx, env)
        IN  /\ Idle
            /\ Commit(b.c, Ev("buy_access", None, None, "",
                              IF b.raised THEN "raise" ELSE BoolStr(b.ret), ""))

ClientBuyAccess ==
    \E env \in BuyEnvs, scraper_ip \in ScraperIPs, detected \in ScraperIPs :
        LET b == client_buy_access(Ctx, scraper_ip, detected, env)
        IN  /\ Idle
            /\ Commit(b.c, Ev("BotPaywallClient.buy_access", None, None,
                              IF Falsy(scraper_ip) THEN "" ELSE scraper_ip[1],
                              IF b.raised THEN "raise" ELSE BoolStr(b.ret), ""))

NextBuy ==
    \/ BuyAccess
    \/ ClientBuyAccess

SpecBuy == Init /\ [][NextBuy]_vars

(* ------------------------- main (scraper.py) --------------------------- *)
wait_after_payment == 1000      \* 10 s
retry_delay == 500              \* 5 s

\* The largest --max-retries a run is given.
MaxRetriesArg == 3
MaxRetriesValues == 0..MaxRetriesArg

\* What requests.get meets in scrape: an exception, or a status with the
\* kind of body the response carries.
ScrapeReply(status_code, body) ==
    [raises |-> "", status_code |-> status_code, body |-> body]
ScrapeRaises(exception) == [raises |-> exception, status_code |-> 0, body |-> ""]

\* scrape: (success, content, status_code); content is the page, the parsed
\* body of a 402 or None.
scrape(outcome) ==
    IF outcome.raises # ""
    THEN [success |-> FALSE, content |-> None, status_code |-> 0]
    ELSE IF outcome.status_code = 200
    THEN [success |-> TRUE, content |-> Some("text"), status_code |-> 200]
    ELSE IF outcome.status_code = 402
    THEN [success |-> FALSE,
          content |-> IF outcome.body = "invalid" THEN None ELSE Some(outcome.body),
          status_code |-> 402]
    ELSE [success |-> FALSE, content |-> None, status_code |-> outcome.status_code]

\* extract_client_ip: None for a missing or empty body, the address the body
\* names if it names one; a body that is not an object has no .get.
extract_client_ip(content) ==
    IF content = None \/ content = Some("empty_dict")
    THEN [raised |-> FALSE, ip |-> None]
    ELSE IF content = Some("list") THEN [raised |-> TRUE, ip |-> None]
    ELSE IF content = Some("dict_with_ip")
    THEN [raised |-> FALSE, ip |-> Some("203.0.113.5")]
    ELSE [raised |-> FALSE, ip |-> None]

\* extract_domain_from_url: the hostname of the URL, None if it has none.
extract_domain_from_url(url) ==
    IF url = "https://" THEN None ELSE Some("example.com")

ScrapeEv(r, note) ==
    Ev("scrape", None, None, "",
       CASE r.status_code = 200 -> "200" [] r.status_code = 402 -> "402"
         [] r.status_code = 0 -> "0" [] OTHER -> "other", note)
SleepEv(d) == [Ev("time.sleep", None, None, "", "", "") EXCEPT !.amount = d]

\* The loop goes on to another attempt after a failed one.
AnotherAttemptAlways(attempt, max_retries) == TRUE

AnotherAttempt(attempt, max_retries) == attempt < max_retries

ScrapeOutcomes ==
    {ScrapeRaises("connection_error"), ScrapeReply(200, "text"),
     ScrapeReply(403, "text"), ScrapeReply(500, "text")}
    \cup {ScrapeReply(402, b) :
             b \in {"invalid", "list", "empty_dict", "dict", "dict_with_ip"}}

\* The target of a run: --url, the URL of a --project, or the configured one.
TargetUrls == {"https://example.com/", "https://"}

\* What get_payment_info returns: None, or the parsed body of a 200.
PaymentInfos == {None, Some("dict"), Some("list")}

MainBuyEnvs ==
    {BuyEnv(f, p, s) :
        f \in {Raises("timeout"), Reply(200, Json("dict", None)),
               Reply(500, Json("invalid", None)),
               Reply(402, Json("dict", Some(<<PaymentOption(Some("0xpay"),
                                                            Some("1000000"))>>)))},
        p \in PaymentOutcomes,
        s \in {Raises("timeout"), Reply(200, Json("dict", None)),
               Reply(500, Json("dict", None))}}

\* A step of main writes the clock and the call log back.
MainStore(c) ==
    /\ c.now <= MaxNow
    /\ now' = c.now
    /\ calls' = c.calls
    /\ UNCHANGED <<payment_address, last_payment_time, last_transaction_id,
                   next_tx, fetch, cycle, wl, breaker>>

\* main returns code, or raises and __main__ exits with 1.
MainExit(code) ==
    run' = [run EXCEPT !.pc = "exited", !.exit = Some(code)]

\* The arguments are read and the target is chosen; an unknown project ends
\* the run.
MainStart ==
    /\ run.pc = "idle" /\ Idle
    /\ \E max_retries \in MaxRetriesValues, known \in BOOLEAN,
          url \in TargetUrls :
          /\ IF known
             THEN run' = [run EXCEPT !.pc = "scrape", !.max_retries = max_retries,
                                     !.url = url]
             ELSE run' = [run EXCEPT !.pc = "exited", !.exit = Some(1),
                                     !.max_retries = max_retries]
          /\ MainStore(Running)

\* STEP 1: the initial scrape, and what is read off a 402.
MainInitialScrape ==
    /\ run.pc = "scrape"
    /\ \E outcome \in ScrapeOutcomes :
          LET r == scrape(IF run.url = "https://" THEN ScrapeRaises("invalid_url")
                          ELSE outcome)
              e == extract_client_ip(r.content)
          IN  /\ MainStore(Log(Running, ScrapeEv(r, "initial")))
              /\ IF r.success THEN MainExit(0)
                 ELSE IF r.status_code # 402 THEN MainExit(1)
                 ELSE IF e.raised THEN MainExit(1)
                 ELSE IF extract_domain_from_url(run.url) = None THEN MainExit(1)
                 ELSE run' = [run EXCEPT !.pc = "buy", !.client_ip = e.ip]

\* STEP 2 and 3: the payment information is shown and access is bought.
MainBuyAccess ==
    /\ run.pc = "buy"
    /\ \E payment_info \in PaymentInfos, env \in MainBuyEnvs :
          LET b == buy_access(Running, env)
              c == Log(b.c, Ev("buy_access", None, None,
                               IF run.client_ip = None THEN "" ELSE run.client_ip[1],
                               BoolStr(b.ret), ""))
          IN  IF payment_info = Some("list")
              THEN MainStore(Running) /\ MainExit(1)
              ELSE /\ MainStore(c)
                   /\ IF b.ret THEN run' = [run EXCEPT !.pc = "wait"]
                      ELSE MainExit(1)

\* STEP 4: the wait for the whitelisting to propagate; the status check
\* changes nothing.
MainWait ==
    /\ run.pc = "wait"
    /\ MainStore(Log(Sleep(Running, wait_after_payment), SleepEv(wait_after_payment)))
    /\ IF 1 <= run.max_retries
       THEN run' = [run EXCEPT !.pc = "retry", !.attempt = 1]
       ELSE MainExit(1)

\* STEP 5: one attempt of the retry loop.
MainRetry ==
    /\ run.pc = "retry"
    /\ \E outcome \in ScrapeOutcomes :
          LET r == scrape(outcome)
              c == Log(Running, ScrapeEv(r, "retry"))
          IN  IF r.success THEN MainStore(c) /\ MainExit(0)
              ELSE IF AnotherAttempt(run.attempt, run.max_retries)
              THEN /\ MainStore(Log(Sleep(c, retry_delay), SleepEv(retry_delay)))
                   /\ run' = [run EXCEPT !.attempt = @ + 1]
              ELSE MainStore(c) /\ MainExit(1)

NextMain ==
    \/ MainStart
    \/ MainInitialScrape
    \/ MainBuyAccess
    \/ MainWait
    \/ MainRetry

SpecMain == Init /\ [][NextMain]_vars
LiveMain == SpecMain /\ WF_vars(NextMain)

(* ------------- AutomatedScraper and CloudflareIPManager ----------------- *)
delay_seconds == 6000           \* 60 s
propagation_wait == 300         \* 3 s

\* The number of ensure_ip_whitelisted calls that are followed.
MaxEnsures == 2

\* find_existing_rule: the first rule Cloudflare lists for the address, None
\* if it lists none or the request fails.
find_existing_rule(rules, listed) ==
    IF listed /\ rules # {} THEN Some(CHOOSE r \in rules : \A q \in rules : r <= q)
    ELSE None

\* create_whitelist_rule: the existing rule if one is found, else the rule
\* Cloudflare creates (it creates none for an address that has one, and none
\* when the request fails); returns the rule id or None, with the rules
\* Cloudflare then holds.
create_whitelist_rule(w, listed, created) ==
    LET existing_rule == find_existing_rule(w.rules, listed)
    IN  IF existing_rule # None THEN [w |-> w, ret |-> existing_rule]
        ELSE IF created /\ w.rules = {}
        THEN [w |-> [w EXCEPT !.rules = {w.next_rule}, !.next_rule = @ + 1],
              ret |-> Some(w.next_rule)]
        ELSE [w |-> w, ret |-> None]

\* remove_whitelist_rule: a DELETE for the rule, which Cloudflare honours
\* or not.
remove_whitelist_rule(w, rule_id, honoured) ==
    [w EXCEPT !.deletes = Append(@, rule_id),
              !.rules = IF honoured THEN @ \ {rule_id} ELSE @]

\* schedule_rule_removal: a background thread that removes the rule after
\* the delay.
schedule_rule_removal(w, rule_id, delay) ==
    [w EXCEPT !.timers = @ \cup {[rule |-> rule_id, due |-> now + delay]}]

WhitelistStore ==
    UNCHANGED <<payment_address, last_payment_time, last_transaction_id,
                next_tx, calls, fetch, cycle, run, breaker>>

\* ensure_ip_whitelisted up to its wait for the rule to propagate; it
\* returns False when the address or the rule cannot be had.
EnsureIpWhitelisted ==
    /\ wl.pc = "idle" /\ wl.ensures < MaxEnsures
    /\ now + propagation_wait <= MaxNow
    /\ \E ip_found \in BOOLEAN, listed \in BOOLEAN, created \in BOOLEAN :
          LET made == create_whitelist_rule(wl, listed, created)
              w == [made.w EXCEPT !.ensures = @ + 1]
          IN  IF ~ip_found \/ made.ret = None
              THEN wl' = [wl EXCEPT !.ensures = @ + 1]
              ELSE wl' = [schedule_rule_removal(w, made.ret[1], delay_seconds)
                            EXCEPT !.current_rule_id = made.ret,
                                   !.pc = "propagating",
                                   !.wake = now + propagation_wait]
    /\ UNCHANGED now
    /\ WhitelistStore

\* ensure_ip_whitelisted returns True after the wait.
EnsureReturns ==
    /\ wl.pc = "propagating" /\ now >= wl.wake
    /\ wl' = [wl EXCEPT !.pc = "idle",
                        !.granted = Append(@, [rule |-> wl.current_rule_id[1],
                                               at |-> wl.wake - propagation_wait])]
    /\ UNCHANGED now
    /\ WhitelistStore

\* remove_after_delay: a removal thread wakes and asks for the removal.
RemoveAfterDelay ==
    /\ \E t \in wl.timers, honoured \in BOOLEAN :
          /\ now >= t.due
          /\ wl' = [remove_whitelist_rule(wl, t.rule, honoured)
                      EXCEPT !.timers = @ \ {t}]
    /\ UNCHANGED now
    /\ WhitelistStore

\* cleanup: the recorded rule is removed and forgotten.
Cleanup ==
    /\ wl.pc = "idle" /\ wl.current_rule_id # None
    /\ \E honoured \in BOOLEAN :
          wl' = [remove_whitelist_rule(wl, wl.current_rule_id[1], honoured)
                   EXCEPT !.current_rule_id = None, !.granted = <<>>]
    /\ UNCHANGED now
    /\ WhitelistStore

\* Time passes, by one propagation wait, to no later than the next wake-up.
WhitelistTick ==
    /\ now + propagation_wait <= MaxNow
    /\ \A t \in wl.timers : t.due > now
    /\ wl.pc = "propagating" => wl.wake > now
    /\ now' = now + propagation_wait
    /\ UNCHANGED wl
    /\ WhitelistStore

NextWhitelist ==
    \/ EnsureIpWhitelisted
    \/ EnsureReturns
    \/ RemoveAfterDelay
    \/ Cleanup
    \/ WhitelistTick

SpecWhitelist == Init /\ [][NextWhitelist]_vars

(* ----------------------- PaywallBreaker (main.py) ----------------------- *)
Endpoints == {RPC_URLS[i] : i \in 1..Len(RPC_URLS)}

\* _connect_to_rpc: the first endpoint of RPC_URLS, the skipped one left
\* out, that answers; None stands for the ConnectionError when none does.
connect_to_rpc(skip_url, reachable) ==
    LET tried == {i \in 1..Len(RPC_URLS) :
                     RPC_URLS[i] # skip_url /\ RPC_URLS[i] \in reachable}
    IN  IF tried = {} THEN None
        ELSE Some(RPC_URLS[CHOOSE i \in tried : \A j \in tried : i <= j])

RpcErrors == {"{'code': -32603}", "not able to process", "RPC unavailable"}

is_rpc_error(error) == error \in RpcErrors

\* What pay_and_scrape hands over as func: a method of self.w3.eth, bound
\* to the connection of the moment it is handed over, or, for gas_price,
\* the value of a property, which is no callable.
Operations ==
    {"get_balance", "gas_price", "get_transaction_count", "send_raw_transaction",
     "wait_for_transaction_receipt"}

\* The outcome of one call of func: "" for a value, else the error raised.
RpcOutcomes == {""} \cup RpcErrors \cup {"nonce too low"}

\* The entry of a call of func or of _connect_to_rpc, with the endpoint it
\* went to.
RpcEv(fn, endpoint, ret, note) ==
    [Ev(fn, None, None, "", ret, note) EXCEPT !.address = endpoint]

\* _try_with_fallback_rpc(func): b is the breaker, bound the endpoint func
\* is bound to; the result carries the error raised, "" if none.
try_with_fallback_rpc(b, c, op, bound, first, reachable, second) ==
    LET e == IF op = "gas_price" THEN "'int' object is not callable" ELSE first
        c1 == Log(c, RpcEv("func", IF op = "gas_price" THEN "" ELSE bound,
                           e, "first"))
        old_rpc == b.rpc_url
        connected == connect_to_rpc(old_rpc, reachable)
        c2 == Log(c1, RpcEv("_connect_to_rpc",
                            IF connected = None THEN "" ELSE connected[1],
                            IF connected = None THEN "ConnectionError" ELSE "",
                            old_rpc))
        b2 == [b EXCEPT !.rpc_url = connected[1]]
        c3 == Log(c2, RpcEv("func", bound, second, "retry"))
    IN  IF e = "" THEN [b |-> b, c |-> c1, raised |-> ""]
        ELSE IF ~is_rpc_error(e) THEN [b |-> b, c |-> c1, raised |-> e]
        ELSE IF connected = None THEN [b |-> b, c |-> c2, raised |-> e]
        ELSE IF second = "" THEN [b |-> b2, c |-> c3, raised |-> ""]
        ELSE [b |-> b2, c |-> c3, raised |-> e]

\* One call of _try_with_fallback_rpc from pay_and_scrape.
TryWithFallbackRpc ==
    /\ Idle
    /\ \E op \in Operations, first \in RpcOutcomes, reachable \in SUBSET Endpoints,
          second \in RpcOutcomes :
          LET t == try_with_fallback_rpc(breaker, Running, op, breaker.rpc_url,
                                         first, reachable, second)
          IN  /\ breaker' = t.b
              /\ calls' = Log(t.c, RpcEv("_try_with_fallback_rpc", t.b.rpc_url,
                                         IF t.raised = "" THEN "value" ELSE "raise",
                                         t.raised)).calls
    /\ UNCHANGED <<now, payment_address, last_payment_time, last_transaction_id,
                   next_tx, fetch, cycle, run, wl>>

NextRpc ==
    \/ TryWithFallbackRpc
    \/ NextCall

SpecRpc == Init /\ [][NextRpc]_vars

(* ============================== properties ============================= *)
Last == calls[Len(calls)]
Events(fn) == {i \in 1..Len(calls) : calls[i].fn = fn}
Decisions == Events("should_trigger_new_payment")
CycleOps == {"handle_payment_required", "handle_expired_whitelist"}
Payments == {i \in Events("make_move_payment") : calls[i].ret = "tx"}

\* A response that is a well-formed X402 challenge, read off its fields.
WellFormedChallenge(r) ==
    /\ r.status_code = 402
    /\ \E i \in 1..Len(r.www_auth) : r.www_auth[i] = "X402-Payment"
    /\ r.address # None /\ r.amount # None /\ r.currency # None

\* C1: a 403 received while the access window is valid triggers no payment:
\* the decision is False and no payment cycle follows it.
C1_NoPaymentWhileWindowValid ==
    \A i \in Decisions :
        (calls[i].resp[1].status_code = 403 /\ calls[i].note = "valid")
        => /\ calls[i].ret = "False"
           /\ \A j \in (i + 1)..Len(calls) :
                  calls[j].fn \notin CycleOps \cup {"make_move_payment"}

\* C2: a payment cycle that returns False leaves the PaymentRecord
\* (last_payment_time, last_transaction_id) as it was before the cycle.
C2_RecordReplacedOnlyOnSuccess ==
    [][(Idle /\ calls' # <<>> /\ calls'[Len(calls')].fn \in CycleOps
        /\ calls'[Len(calls')].ret = "False")
       => (last_payment_time' = last_payment_time
           /\ last_transaction_id' = last_transaction_id)]_vars

\* The result verify_payment_with_system reports for the authority's verified=true.
VerifiedByAuthority == BoolStr(verify_payment_with_system(TxId(0), "verified").value)

\* C3: a verification that passed through the syntactic fallback is never
\* reported with the result of a verification confirmed by the authority.
C3_FallbackNeverPlainSuccess ==
    \A i \in Events("verify_payment_with_system") :
        calls[i].note = "fallback" => calls[i].ret # VerifiedByAuthority

\* C4: for a well-formed X402 challenge should_trigger_new_payment returns
\* True in every state of the access window.
C4_WellFormedChallengeTriggers ==
    \A i \in Decisions :
        WellFormedChallenge(calls[i].resp[1]) => calls[i].ret = "True"

C4_Witness ==
    /\ Decided
    /\ WellFormedChallenge(Last.resp[1])
    /\ Last.note = "valid"
    /\ Last.ret = "True"

\* C5: a 403, or a 402 that is not a well-formed challenge, makes
\* should_trigger_new_payment return True when the window is expired or absent.
C5_DenialAfterExpiryTriggers ==
    \A i \in Decisions :
        (/\ \/ calls[i].resp[1].status_code = 403
            \/ (calls[i].resp[1].status_code = 402
                /\ ~WellFormedChallenge(calls[i].resp[1]))
         /\ calls[i].note \in {"absent", "expired"})
        => calls[i].ret = "True"

C5_Witness ==
    /\ Decided
    /\ Last.resp[1].status_code = 402
    /\ ~WellFormedChallenge(Last.resp[1])
    /\ last_payment_time # None
    /\ Last.at - last_payment_time[1] = whitelist_duration
    /\ Last.ret = "True"

\* C6: for a response that is neither 402 nor 403 should_trigger_new_payment
\* returns False in every state of the access window.
C6_OtherStatusNeverTriggers ==
    \A i \in Decisions :
        calls[i].resp[1].status_code \notin {402, 403} => calls[i].ret = "False"

C6_Witness ==
    /\ Decided
    /\ Last.resp[1].status_code = 500
    /\ Last.note = "expired"
    /\ Last.ret = "False"

\* C7: two calls of should_trigger_new_payment with the same outcome and the
\* same access window return the same decision, and a call leaves
\* last_payment_time and last_transaction_id unchanged.
C7_DecisionIsPure ==
    [][/\ (Decided /\ Decided'
           /\ Classify(calls[Len(calls)].resp[1])
                = Classify(calls'[Len(calls')].resp[1])
           /\ calls[Len(calls)].note = calls'[Len(calls')].note)
          => calls'[Len(calls')].ret = calls[Len(calls)].ret
       /\ (Decided' /\ calls' # calls)
          => (last_payment_time' = last_payment_time
              /\ last_transaction_id' = last_transaction_id)]_vars

C7_Witness ==
    /\ Decided
    /\ Classify(Last.resp[1]) = "PaymentRequiredMalformed"
    /\ Last.note = "valid"
    /\ Last.at > last_payment_time[1]
    /\ Last.ret = "False"

\* C8: is_whitelist_expired is True without a payment record; for a record
\* made at T it is False at every time in [T, T + whitelist_duration) and
\* True from T + whitelist_duration on.
C8_ExpiryBoundary ==
    \A i \in Events("is_whitelist_expired") :
        /\ last_payment_time = None => calls[i].ret = "True"
        /\ last_payment_time # None =>
              /\ (calls[i].at >= last_payment_time[1]
                  /\ calls[i].at < last_payment_time[1] + whitelist_duration)
                 => calls[i].ret = "False"
              /\ calls[i].at >= last_payment_time[1] + whitelist_duration
                 => calls[i].ret = "True"

C8_Witness ==
    /\ ~Idle
    /\ Last.fn = "is_whitelist_expired"
    /\ last_payment_time # None
    /\ Last.at = last_payment_time[1] + whitelist_duration
    /\ Last.ret = "True"

\* C9: in a payment cycle the verification directly follows the payment and
\* is given that payment's transaction id and the cycle's client IP; the
\* allow-list wait directly follows a verification that returned True; the
\* challenge is extracted before the payment.
C9_CycleOrder ==
    /\ \A i \in Events("verify_payment_with_system") :
          /\ i > 1
          /\ (i - 1) \in Payments
          /\ calls[i].tx = calls[i - 1].tx
          /\ \A j \in 1..Len(calls) :
                calls[j].fn \in CycleOps => calls[i].ip = calls[j].ip
    /\ \A i \in Events("wait_for_whitelist") :
          /\ i > 1
          /\ calls[i - 1].fn = "verify_payment_with_system"
          /\ calls[i - 1].ret = "True"
    /\ \A i \in Events("extract_payment_details") :
          \A j \in Events("make_move_payment") : i < j

C9_Witness ==
    /\ ~Idle
    /\ Last.fn = "handle_payment_required"
    /\ Last.ip = "10.0.0.7"
    /\ Len(calls) = 5
    /\ calls[1].fn = "extract_payment_details"
    /\ calls[2].fn = "make_move_payment"
    /\ calls[3].fn = "verify_payment_with_system"
    /\ calls[4].fn = "wait_for_whitelist"

\* C10: a cycle in which verification returned False returns False without
\* waiting; a cycle whose wait returned False returns False; a cycle returns
\* True only if payment, verification and wait all succeeded.
C10_FailingStepAborts ==
    (~Idle /\ Last.fn \in CycleOps) =>
        /\ (\E i \in Events("verify_payment_with_system") : calls[i].ret = "False")
           => (Last.ret = "False" /\ Events("wait_for_whitelist") = {})
        /\ (\E i \in Events("wait_for_whitelist") : calls[i].ret = "False")
           => Last.ret = "False"
        /\ Last.ret = "True"
           => /\ Payments # {}
              /\ \E i \in Events("verify_payment_with_system") : calls[i].ret = "True"
              /\ \E i \in Events("wait_for_whitelist") : calls[i].ret = "True"

C10_Witness ==
    /\ ~Idle
    /\ Last.fn \in CycleOps
    /\ Last.ret = "False"
    /\ \E i \in Events("verify_payment_with_system") :
          calls[i].ret = "False" /\ calls[i].note = "authority"

C10_WitnessWait ==
    /\ ~Idle
    /\ Last.fn \in CycleOps
    /\ Last.ret = "False"
    /\ \E i \in Events("wait_for_whitelist") : calls[i].ret = "False"


\* Header texts that denote an amount other than the configured 0.01.
OtherAmounts == {"0.02", "0.011"}

\* C11: a challenge whose amount differs from the configured one makes
\* handle_payment_required return False after the extraction raised, without
\* a call of make_move_payment and with the PaymentRecord unchanged.
C11_AmountMismatchNeverPays ==
    [][(/\ Idle /\ calls' # <<>>
        /\ calls'[Len(calls')].fn = "handle_payment_required"
        /\ WellFormedChallenge(calls'[Len(calls')].resp[1])
        /\ calls'[Len(calls')].resp[1].amount[1] \in OtherAmounts)
       => (/\ calls'[Len(calls')].ret = "False"
           /\ \A i \in 1..Len(calls') :
                 /\ calls'[i].fn # "make_move_payment"
                 /\ calls'[i].fn = "extract_payment_details" => calls'[i].ret = "raise"
           /\ last_payment_time' = last_payment_time
           /\ last_transaction_id' = last_transaction_id)]_vars

C11_Witness ==
    /\ ~Idle
    /\ Last.fn = "handle_payment_required"
    /\ Last.resp[1] = [WellFormed EXCEPT !.amount = Some("0.02")]
    /\ Last.ret = "False"
    /\ Len(calls) = 2
    /\ calls[1].ret = "raise"
    /\ last_transaction_id # None

\* The operations at the boundary of the access controller.
BoundaryOps == CycleOps \cup {"fetch_with_x402_payment"}

\* C12: handle_payment_required, handle_expired_whitelist and
\* fetch_with_x402_payment never raise; when a step inside them raised, their
\* result is the failure value (False, None).
C12_NoExceptionEscapes ==
    (~Idle /\ Last.fn \in BoundaryOps) =>
        /\ Last.ret # "raise"
        /\ (\E i \in 1..(Len(calls) - 1) : calls[i].ret = "raise")
           => Last.ret \in {"False", "None"}

C12_Witness ==
    /\ ~Idle
    /\ Last.fn = "handle_expired_whitelist"
    /\ Last.ret = "False"
    /\ \E i \in Events("verify_payment_with_system") : calls[i].ret = "raise"

\* C13: after a successful payment cycle every retry of the original request
\* carries, as its proof header, the transaction id that the payment of that
\* cycle returned.
C13_RetryCarriesProof ==
    \A i \in Events("session.get") :
        calls[i].note = "retry" =>
            \E j \in Payments :
                /\ j < i
                /\ \A k \in Payments : k <= j
                /\ calls[i].tx = calls[j].tx

FetchStrategies == {"fetch_with_human_simulation", "fetch_with_x402_payment",
                    "fetch_with_hybrid_approach"}

C14_Bounded ==
    /\ fetch.attempt <= MAX_RETRIES
    /\ fetch.pc \in {"strategy", "round_end"} =>
            fetch.attempt < MAX_RETRIES /\ fetch.delays = fetch.attempt
    /\ (fetch.pc = "done" /\ ~Truthy(fetch.ret)) =>
            /\ fetch.ret = "None"
            /\ fetch.attempt = MAX_RETRIES
            /\ fetch.delays = MAX_RETRIES - 1
    /\ (fetch.pc = "done" /\ Truthy(fetch.ret)) =>
            /\ Last.fn \in FetchStrategies
            /\ Last.ret = fetch.ret
            /\ fetch.attempt < MAX_RETRIES

C14_Step ==
    /\ fetch.pc = "round_end" =>
            /\ now' - now = (IF fetch.attempt + 1 < MAX_RETRIES THEN RETRY_DELAY ELSE 0)
            /\ fetch'.pc = (IF fetch.attempt + 1 < MAX_RETRIES THEN "strategy" ELSE "done")
    /\ fetch.pc = "strategy" =>
            /\ calls'[Len(calls')].fn \in FetchStrategies
            /\ (fetch'.pc = "done") = Truthy(calls'[Len(calls')].ret)
            /\ fetch'.attempt = fetch.attempt
    /\ fetch.pc = "done" => UNCHANGED vars

\* C14: fetch runs at most MAX_RETRIES rounds of its strategies, sleeps
\* RETRY_DELAY between two consecutive rounds and not after the last one, stops
\* at the first strategy that returns content, and otherwise ends with None
\* after the last round; every run of it ends.
C14_FetchLoopBounded ==
    /\ []C14_Bounded
    /\ [][C14_Step]_vars
    /\ <>(fetch.pc = "done")

C14_Witness ==
    /\ fetch.pc = "done"
    /\ fetch.ret = "None"
    /\ fetch.attempt = MAX_RETRIES
    /\ fetch.delays = MAX_RETRIES - 1
    /\ Last.fn = "fetch_with_hybrid_approach"

\* What a strategy returns when its payment cycle failed, and what it returns
\* when it was denied while the access window was valid.
PaymentFailedValue ==
    fetch_with_x402_payment([now |-> 0, lpt |-> None, ltx |-> None, ntx |-> 0,
                             calls |-> <<>>],
                            Some(WellFormed), CycleEnv("rejected", 0, <<0, 0, 0>>),
                            None, None).ret
BlockedValue ==
    fetch_with_x402_payment([now |-> 100, lpt |-> Some(0), ltx |-> Some(TxId(0)),
                             ntx |-> 1, calls |-> <<>>],
                            Some(Resp(403, <<>>, None, None, None)),
                            CycleEnv("verified", 0, <<0, 0, 0>>), None, None).ret

\* C15: the failure that fetch reports when its rounds are used up differs
\* from the failure of a denial inside a valid access window and from the
\* failure of a payment.
C15_ExhaustedDistinguishable ==
    (fetch.pc = "done" /\ fetch.attempt = MAX_RETRIES) =>
        fetch.ret \notin {PaymentFailedValue, BlockedValue}

\* C16: detect_payment_required returns True exactly for a 402 whose
\* WWW-Authenticate header contains the marker X402-Payment and that has the
\* address, the amount and the currency header; False for a 402 of another
\* scheme and for every other status.
C16_DetectIffWellFormed ==
    (~Idle /\ Last.fn = "detect_payment_required") =>
        LET r == Last.resp[1]
        IN  /\ Last.ret = BoolStr(/\ r.status_code = 402
                                  /\ Contains(r.www_auth, "X402-Payment")
                                  /\ r.address # None
                                  /\ r.amount # None
                                  /\ r.currency # None)
            /\ r.status_code # 402 => Last.ret = "False"
            /\ ~Contains(r.www_auth, "X402-Payment") => Last.ret = "False"

C16_Witness ==
    /\ ~Idle
    /\ Last.fn = "detect_payment_required"
    /\ Last.resp[1] = WellFormed
    /\ Last.ret = "True"

C16_WitnessBasic ==
    /\ ~Idle
    /\ Last.fn = "detect_payment_required"
    /\ Last.resp[1] = [WellFormed EXCEPT !.www_auth = <<"Basic", "realm">>]
    /\ Last.ret = "False"

\* A 402 that lacks at least one of the three payment headers.
MissingPaymentHeader(r) ==
    /\ r.status_code = 402
    /\ r.address = None \/ r.amount = None \/ r.currency = None

\* C17: on a 402 that lacks one of the three payment headers neither
\* detect_payment_required nor extract_payment_details raises.
C17_ParserNeverRaisesOnMissingHeader ==
    (/\ ~Idle
     /\ Last.fn \in {"detect_payment_required", "extract_payment_details"}
     /\ MissingPaymentHeader(Last.resp[1]))
        => Last.ret # "raise"

\* C18: on a well-formed challenge extract_payment_details returns the
\* details exactly when the amount is the configured amount and the currency
\* is the configured currency, and raises otherwise.
C18_ExtractValidatesAmountAndCurrency ==
    (~Idle /\ Last.fn = "extract_payment_details"
           /\ WellFormedChallenge(Last.resp[1])) =>
        LET r == Last.resp[1]
            same == /\ ParseFloat(r.amount[1]) = Some(payment_amount)
                    /\ r.currency[1] = payment_currency
        IN  /\ same => /\ Last.ret = "details"
                       /\ Last.address = r.address[1]
                       /\ Last.amount = payment_amount
                       /\ Last.note = payment_currency
            /\ ~same => Last.ret = "raise"

C18_Witness ==
    /\ ~Idle
    /\ Last.fn = "extract_payment_details"
    /\ Last.resp[1] = [WellFormed EXCEPT !.currency = Some("MOVe")]
    /\ Last.ret = "raise"

C18_WitnessAmount ==
    /\ ~Idle
    /\ Last.fn = "extract_payment_details"
    /\ Last.resp[1] = [WellFormed EXCEPT !.amount = Some("0.011")]
    /\ Last.ret = "raise"

C18_WitnessAccepted ==
    /\ ~Idle
    /\ Last.fn = "extract_payment_details"
    /\ Last.resp[1] = WellFormed
    /\ Last.ret = "details"

\* C19: a make_move_payment call with an amount other than the configured
\* one raises, produces no transaction id, and leaves last_payment_time and
\* last_transaction_id as they were.
C19_WrongAmountPaysNothing ==
    [][(/\ Idle
        /\ calls' # <<>>
        /\ calls'[Len(calls')].fn = "make_move_payment"
        /\ calls'[Len(calls')].amount # payment_amount)
       => (/\ calls'[Len(calls')].ret = "raise"
           /\ calls'[Len(calls')].tx = None
           /\ last_payment_time' = last_payment_time
           /\ last_transaction_id' = last_transaction_id
           /\ next_tx' = next_tx)]_vars

C19_Witness ==
    /\ ~Idle
    /\ Last.fn = "make_move_payment"
    /\ Last.amount = 20
    /\ Last.ret = "raise"
    /\ last_transaction_id = Some(TxId(0))
    /\ last_payment_time # None

\* C20: a successful make_move_payment returns an id made of "0x" and 64
\* more characters, and when it returns last_transaction_id is that id and
\* last_payment_time is the time of the return.
C20_PaymentRecordIsThisPayment ==
    (~Idle /\ Last.fn = "make_move_payment" /\ Last.ret = "tx") =>
        /\ Last.tx # None
        /\ Last.tx[1].starts_0x
        /\ Last.tx[1].len = 66
        /\ last_transaction_id = Last.tx
        /\ last_payment_time = Some(Last.at)
        /\ Last.at = now

C20_Witness ==
    /\ ~Idle
    /\ Last.fn = "make_move_payment"
    /\ Last.ret = "tx"
    /\ Last.tx = Some(TxId(1))
    /\ last_transaction_id = Some(TxId(1))
    /\ last_payment_time = Some(now)
    /\ now > PaymentDelay

Verifications == Events("verify_payment_with_system")
Waits == Events("wait_for_whitelist")

\* C21: when the authority answers, its answer decides: the verification is
\* True exactly when the answer is a 200 with verified = true, it is False for
\* verified = false and for every other status whatever the shape of the
\* transaction id, and the syntactic fallback is not asked.
C21_AuthorityIsAuthoritative ==
    \A i \in Verifications :
        LET a == calls[i].arg[1]
        IN  a \notin ConnectionFailures =>
                /\ (calls[i].ret = "True") = (a = "verified")
                /\ calls[i].note # "fallback"
                /\ (a = "rejected" \/ a \in Non200Replies) => calls[i].ret = "False"

C21_Witness ==
    /\ ~Idle
    /\ Last.fn = "verify_payment_with_system"
    /\ Last.arg = Some("rejected")
    /\ Last.tx = Some(TxId(0))
    /\ Last.ret = "False"

C21_WitnessVerified ==
    /\ ~Idle
    /\ Last.fn = "verify_payment_with_system"
    /\ Last.arg = Some("verified")
    /\ Last.tx = Some(InvalidTx)
    /\ Last.ret = "True"

\* C22: when the authority cannot be reached the verification returns the
\* result of the syntactic check, True exactly for an id that starts with
\* "0x" and has 66 characters, and it does not raise.
C22_FallbackIsSyntacticCheck ==
    \A i \in Verifications :
        calls[i].arg[1] \in ConnectionFailures =>
            /\ calls[i].ret = BoolStr(calls[i].tx[1].starts_0x /\ calls[i].tx[1].len = 66)
            /\ calls[i].note = "fallback"

C22_Witness ==
    /\ ~Idle
    /\ Last.fn = "verify_payment_with_system"
    /\ Last.arg = Some("connection_error")
    /\ Last.tx = Some(LongTx)
    /\ Last.ret = "False"

C22_WitnessAccepted ==
    /\ ~Idle
    /\ Last.fn = "verify_payment_with_system"
    /\ Last.arg = Some("connect_timeout")
    /\ Last.tx = Some(TxId(0))
    /\ Last.ret = "True"

\* C23: one call of a payment cycle invokes make_move_payment at most once
\* and verify_payment_with_system at most once.
C23_NoStepRetried ==
    (~Idle /\ Last.fn \in BoundaryOps) =>
        /\ Cardinality(Events("make_move_payment")) <= 1
        /\ Cardinality(Verifications) <= 1

C23_Witness ==
    /\ ~Idle
    /\ Last.fn \in CycleOps
    /\ Last.ret = "False"
    /\ Cardinality(Events("make_move_payment")) = 1
    /\ \E i \in Verifications : calls[i].ret = "False" /\ calls[i].arg = Some("rejected")

\* C24: every transaction id handed to the verification is the id of a
\* payment made earlier in the same cycle, an id that did not exist before the
\* cycle started: no id is verified in two cycles, a rejected one included.
C24_RejectedIdNeverResubmitted ==
    [][/\ last_transaction_id # None => last_transaction_id[1].n < next_tx
       /\ (/\ Idle
           /\ calls' # <<>>
           /\ calls'[Len(calls')].fn \in BoundaryOps)
          => \A i \in 1..Len(calls') :
                calls'[i].fn = "verify_payment_with_system" =>
                    /\ calls'[i].tx # None
                    /\ calls'[i].tx[1].n >= next_tx
                    /\ \E j \in 1..(i - 1) :
                          /\ calls'[j].fn = "make_move_payment"
                          /\ calls'[j].ret = "tx"
                          /\ calls'[j].tx = calls'[i].tx]_vars

C24_Witness ==
    /\ ~Idle
    /\ Last.fn = "handle_payment_required"
    /\ \E i \in Verifications :
          /\ calls[i].tx = Some(TxId(1))
          /\ calls[i].ret = "False"
          /\ calls[i].arg = Some("rejected")

\* C25: a wait that returns False has lasted at least its timeout, and a
\* wait whose timeout ran out returns False and does not raise.
C25_TimeoutReturnsFalse ==
    \A i \in Waits :
        LET a == calls[i].arg[1]
        IN  /\ calls[i].ret \in {"True", "False"}
            /\ calls[i].ret = "False" => calls[i].at - a.start >= a.timeout
            /\ calls[i].at - a.start >= a.timeout => calls[i].ret = "False"

C25_Witness ==
    /\ ~Idle
    /\ Last.fn = "wait_for_whitelist"
    /\ Last.ret = "False"
    /\ Last.arg[1].timeout = 200
    /\ Last.at - Last.arg[1].start = 200

\* C26: a wait that returns True has lasted at least the 5 s floor, and
\* less than its timeout had passed when its last poll began.
C26_NoSuccessBeforeFloor ==
    \A i \in Waits :
        calls[i].ret = "True" =>
            /\ calls[i].at - calls[i].arg[1].start >= WhitelistFloor
            /\ calls[i].at - calls[i].arg[1].start < calls[i].arg[1].timeout

C26_Witness ==
    /\ ~Idle
    /\ Last.fn = "wait_for_whitelist"
    /\ Last.ret = "True"
    /\ Last.at - Last.arg[1].start = WhitelistFloor

\* C27: a wait makes a bounded number of polls: its first sleep is 2 s, each
\* further one is 1.2 times the one before and at most the 5 s cap, no sleep
\* starts once the floor is passed, and with sleeps of the length asked the
\* call returns within its timeout plus one capped interval.
C27_BoundedBackoff ==
    \A i \in Waits :
        LET a == calls[i].arg[1]
            n == Len(a.sleeps)
        IN  /\ n >= 1 => a.sleeps[1] = FirstInterval
            /\ \A k \in 2..n :
                  a.sleeps[k] * 10 = Min(a.sleeps[k - 1] * 12, max_interval * 10)
            /\ \A k \in 1..n : a.sleeps[k] <= max_interval
            /\ (n - 1) * FirstInterval < WhitelistFloor
            /\ a.exact =>
                  IF a.timeout <= 0 THEN calls[i].at = a.start
                  ELSE calls[i].at - a.start <= a.timeout + max_interval

C27_Witness ==
    /\ ~Idle
    /\ Last.fn = "wait_for_whitelist"
    /\ Last.arg[1].sleeps = <<200, 240, 288>>
    /\ Last.arg[1].exact
    /\ Last.arg[1].timeout = 600
    /\ Last.ret = "False"

\* C28: no call of wait_for_whitelist changes last_payment_time or
\* last_transaction_id, a call made after one that returned True included.
C28_WaitKeepsRecord ==
    [][(/\ calls' # calls
        /\ calls' # <<>>
        /\ calls'[Len(calls')].fn = "wait_for_whitelist")
       => (/\ last_payment_time' = last_payment_time
           /\ last_transaction_id' = last_transaction_id)]_vars

C28_Witness ==
    /\ Len(calls) = 2
    /\ calls[1].fn = "wait_for_whitelist" /\ calls[1].ret = "True"
    /\ calls[2].fn = "wait_for_whitelist" /\ calls[2].ret = "True"
    /\ last_payment_time = Some(0)
    /\ last_transaction_id = Some(TxId(0))

\* C29: handle_expired_whitelist called with a response that is not a
\* well-formed challenge pays the configured amount to the configured
\* address (the default address when none is configured), whatever the
\* headers of the response say.
C29_RenewalPaysConfiguredAddress ==
    (/\ ~Idle
     /\ Last.fn = "handle_expired_whitelist"
     /\ ~WellFormedChallenge(Last.resp[1]))
        => /\ Cardinality(Events("make_move_payment")) = 1
           /\ \A i \in Events("make_move_payment") :
                 /\ calls[i].address = (IF payment_address # None THEN payment_address[1]
                                        ELSE default_payment_address)
                 /\ calls[i].amount = payment_amount

C29_Witness ==
    /\ ~Idle
    /\ Last.fn = "handle_expired_whitelist"
    /\ Last.resp[1] = [WellFormed EXCEPT !.www_auth = <<"Basic", "realm">>]
    /\ payment_address = None
    /\ \E i \in Payments : calls[i].address = default_payment_address

\* C30: last_payment_time is None exactly when last_transaction_id is None,
\* and after an operation that made a payment both fields are those of that
\* payment.
C30_OneCurrentRecord ==
    /\ (last_payment_time = None) = (last_transaction_id = None)
    /\ (~Idle /\ Last.fn \in CycleOps) =>
          \A j \in Payments :
              (\A k \in Payments : k <= j) =>
                  /\ last_transaction_id = calls[j].tx
                  /\ last_payment_time = Some(calls[j].at)

C30_Witness ==
    /\ ~Idle
    /\ Last.fn = "handle_expired_whitelist"
    /\ \E j \in Payments : calls[j].tx = Some(TxId(1))
    /\ last_transaction_id = Some(TxId(1))
    /\ last_payment_time # None

\* The challenge of the run is well formed and asks for the configured
\* amount in the configured currency, and handle_payment_required is given it.
C31_Scenario ==
    /\ cycle.handler = "handle_payment_required"
    /\ cycle.response # None
    /\ WellFormedChallenge(cycle.response[1])
    /\ ParseFloat(cycle.response[1].amount[1]) = Some(payment_amount)
    /\ cycle.response[1].currency[1] = payment_currency

\* The authority could not be reached and every sleep of the wait lasted as
\* long as asked.
C31_Environment ==
    /\ \E i \in Verifications : calls[i].arg[1] \in ConnectionFailures
    /\ cycle.exact

C31_Returned ==
    /\ (cycle.pc \in {"after", "retry", "done"} /\ C31_Scenario /\ C31_Environment)
       => /\ cycle.payment_success = "True"
          /\ last_payment_time # None
          /\ last_transaction_id # None
          /\ last_transaction_id[1].starts_0x
          /\ \E i \in Events("handle_payment_required") : calls[i].ret = "True"
    /\ (cycle.pc = "done" /\ cycle.payment_success = "True") =>
          \A i \in Events("session.get") :
              (calls[i].note = "retry" /\ calls[i].resp # None
               /\ calls[i].resp[1].status_code = 200)
              => /\ Classify(calls[i].resp[1]) = "Success"
                 /\ cycle.ret = calls[i].resp[1].text
                 /\ Last.ret = calls[i].resp[1].text

\* C31: given a well-formed challenge with the configured amount and
\* currency, a payment that succeeds, an authority that cannot be reached and
\* the default wait timeout, handle_payment_required returns, and returns True
\* with last_payment_time set and last_transaction_id starting with "0x"; the
\* retried fetch then ends, and when it answers 200 fetch_with_x402_payment
\* returns its content.
C31_CycleSucceeds ==
    /\ []C31_Returned
    /\ (cycle.pc = "extract" /\ C31_Scenario) ~> (cycle.pc = "after")
    /\ (cycle.pc = "retry") ~> (cycle.pc = "done")

C31_Witness ==
    /\ cycle.pc = "done"
    /\ C31_Scenario
    /\ C31_Environment
    /\ cycle.sleeps = <<200, 240, 288>>
    /\ cycle.payment_success = "True"
    /\ last_transaction_id = Some(TxId(1))
    /\ cycle.ret = "<html>"

\* C32: a wait whose timeout is greater than the 5 s floor, and whose sleeps
\* last as long as asked, returns True before its timeout has elapsed.
C32_TimeoutAboveFloorSucceeds ==
    \A i \in Waits :
        LET a == calls[i].arg[1]
        IN  (a.timeout > WhitelistFloor /\ a.exact) =>
                /\ calls[i].ret = "True"
                /\ calls[i].at - a.start < a.timeout

\* C33: a 402 that is not a well-formed challenge, received while the
\* access window is valid, makes should_trigger_new_payment return False, and
\* fetch_with_x402_payment then starts no payment cycle and makes no payment.
C33_MalformedChallengeInsideWindow ==
    \A i \in Decisions :
        (/\ calls[i].resp[1].status_code = 402
         /\ ~WellFormedChallenge(calls[i].resp[1])
         /\ calls[i].note = "valid")
        => /\ calls[i].ret = "False"
           /\ \A j \in (i + 1)..Len(calls) :
                  /\ calls[j].fn \notin CycleOps \cup {"make_move_payment"}
                  /\ calls[j].fn = "fetch_with_x402_payment" => calls[j].ret = "None"

C33_Witness ==
    /\ ~Idle
    /\ Last.fn = "fetch_with_x402_payment"
    /\ Last.ret = "None"
    /\ Len(calls) = 3
    /\ calls[2].fn = "should_trigger_new_payment"
    /\ calls[2].resp[1] = [WellFormed EXCEPT !.address = None]
    /\ calls[2].note = "valid"
    /\ calls[2].ret = "False"
    /\ last_transaction_id # None

\* C34: when handle_expired_whitelist has returned, with True or with False,
\* the payment record is absent or is the record of a payment made during the
\* call; it is never the record that was there before the call.
C34_RenewalDiscardsOldRecord ==
    [][(/\ Idle
        /\ calls' # <<>>
        /\ calls'[Len(calls')].fn = "handle_expired_whitelist")
       => (/\ calls'[Len(calls')].ret \in {"True", "False"}
           /\ \/ last_payment_time' = None /\ last_transaction_id' = None
              \/ \E j \in 1..Len(calls') :
                    /\ calls'[j].fn = "make_move_payment"
                    /\ calls'[j].ret = "tx"
                    /\ last_transaction_id' = calls'[j].tx
                    /\ last_payment_time' = Some(calls'[j].at)
           /\ last_transaction_id # None =>
                  /\ last_transaction_id' # last_transaction_id
                  /\ last_payment_time' # last_payment_time)]_vars

\* An earlier payment was recorded; the renewal made none and left no record.
C34_Witness ==
    /\ ~Idle
    /\ Last.fn = "handle_expired_whitelist"
    /\ Last.ret = "False"
    /\ next_tx = 1
    /\ Events("make_move_payment") = {}
    /\ last_payment_time = None
    /\ last_transaction_id = None

C34_WitnessRenewed ==
    /\ ~Idle
    /\ Last.fn = "handle_expired_whitelist"
    /\ Last.ret = "False"
    /\ last_transaction_id = Some(TxId(1))
    /\ \E i \in Verifications : calls[i].ret = "False"

\* The paying strategies of the current round that have run.
PayingStrategiesRun ==
    CASE fetch.pc = "strategy" -> (IF fetch.strategy = 3 THEN 1 ELSE 0)
      [] fetch.pc = "round_end" -> 2
      [] fetch.pc = "done" /\ Truthy(fetch.ret) ->
            (CASE Last.fn = "fetch_with_hybrid_approach" -> 2
               [] Last.fn = "fetch_with_x402_payment" -> 1
               [] OTHER -> 0)
      [] OTHER -> 0

C35_Bounded ==
    /\ fetch.paid <= 2 * fetch.attempt + PayingStrategiesRun
    /\ fetch.paid <= 2 * MAX_RETRIES
    /\ Cardinality(Events("make_move_payment")) <= 1
    /\ (~Idle /\ Last.fn \in FetchStrategies /\ Truthy(Last.ret)) =>
          \A j \in Payments : \E g \in Events("session.get") : g > j

C35_Step ==
    /\ next_tx' - next_tx \in {0, 1}
    /\ fetch'.paid - fetch.paid = next_tx' - next_tx
    /\ next_tx' # next_tx =>
          /\ fetch.pc = "strategy"
          /\ fetch.strategy \in {2, 3}
          /\ calls'[Len(calls')].fn \in {"fetch_with_x402_payment",
                                         "fetch_with_hybrid_approach"}
    /\ (~Idle /\ Last.fn \in FetchStrategies /\ Truthy(Last.ret)) => next_tx' = next_tx

\* C35: one run of a paying strategy makes at most one payment, one call of
\* fetch makes at most 2 x MAX_RETRIES payments, all of them in runs of
\* fetch_with_x402_payment and fetch_with_hybrid_approach, and none once a
\* strategy has returned content.
C35_PaymentsPerFetchBounded ==
    /\ []C35_Bounded
    /\ [][C35_Step]_vars

C35_Witness ==
    /\ fetch.pc = "done"
    /\ fetch.ret = "None"
    /\ fetch.paid = 2 * MAX_RETRIES
    /\ next_tx = 2 * MAX_RETRIES + 1

Retries == {i \in Events("session.get") : calls[i].note = "retry"}

\* C36: fetch_with_x402_payment returns content only from a response with
\* status 200; it sends the retry request only right after a payment cycle
\* that returned True; when the cycle returned False it sends no retry and
\* returns None.
C36_ContentOnlyFrom200 ==
    /\ \A i \in Retries :
          /\ i > 1
          /\ calls[i - 1].fn \in CycleOps
          /\ calls[i - 1].ret = "True"
    /\ (\E j \in 1..Len(calls) : calls[j].fn \in CycleOps /\ calls[j].ret = "False")
       => /\ Retries = {}
          /\ cycle.ret = "None"
    /\ (cycle.pc = "done" /\ cycle.ret # "None") =>
          /\ Len(calls) >= 2
          /\ Last.fn = "fetch_with_x402_payment"
          /\ Last.ret = cycle.ret
          /\ \E g \in Events("session.get") :
                /\ \A h \in Events("session.get") : h <= g
                /\ calls[g].resp # None
                /\ calls[g].resp[1].status_code = 200
                /\ calls[g].resp[1].text = cycle.ret

C36_Witness ==
    /\ cycle.pc = "done"
    /\ cycle.payment_success = "False"
    /\ cycle.ret = "None"
    /\ Payments # {}
    /\ Retries = {}
    /\ \E i \in Waits : calls[i].ret = "False"

C36_WitnessContent ==
    /\ cycle.pc = "done"
    /\ cycle.payment_success = "True"
    /\ cycle.handler = "handle_expired_whitelist"
    /\ cycle.ret = ""
    /\ Retries # {}

BuyOps == {"buy_access", "BotPaywallClient.buy_access"}
Posts == Events("requests.post")
ChainPayments == Events("make_blockchain_payment")

\* The first entry of 'accepts' in the body of the reply of entry i.
FirstOption(i) == calls[i].resp[1].json.accepts[1][1]

\* C38: buy_access (scraper.py and the SDK client) never raises; it reports
\* success only if the last reply of the access server had status 200; it
\* makes at most one blockchain payment, and only after a first reply with
\* status 402 whose first payment option has payTo and maxAmountRequired; the
\* second request is sent only after the payment returned a hash and carries
\* that hash as its proof.
C38_BuyAccessPaysOnceAfterChallenge ==
    (~Idle /\ Last.fn \in BuyOps) =>
        /\ Last.ret \in {"True", "False"}
        /\ Last.ret = "True" =>
              \E g \in Posts :
                  /\ \A h \in Posts : h <= g
                  /\ calls[g].resp # None
                  /\ calls[g].resp[1].status_code = 200
        /\ Cardinality(ChainPayments) <= 1
        /\ Cardinality(Posts) <= 2
        /\ \A p \in ChainPayments :
              /\ p = 2
              /\ calls[1].fn = "requests.post"
              /\ calls[1].tx = None
              /\ calls[1].resp # None
              /\ calls[1].resp[1].status_code = 402
              /\ calls[1].resp[1].json.kind = "dict"
              /\ calls[1].resp[1].json.accepts # None
              /\ Len(calls[1].resp[1].json.accepts[1]) >= 1
              /\ ~Falsy(FirstOption(1).payTo)
              /\ ~Falsy(FirstOption(1).maxAmountRequired)
              /\ calls[p].address = FirstOption(1).payTo[1]
              /\ Some(calls[p].amount) = ParseInt(FirstOption(1).maxAmountRequired[1])
        /\ \A r \in Posts :
              calls[r].note = "retry" =>
                  /\ r = 3
                  /\ calls[2].fn = "make_blockchain_payment"
                  /\ calls[2].ret = "tx"
                  /\ calls[2].tx # None
                  /\ calls[r].tx = calls[2].tx
                  /\ calls[r].at >= calls[2].at + ConfirmationDelay

C38_Witness ==
    /\ ~Idle
    /\ Last.fn = "buy_access"
    /\ Last.ret = "False"
    /\ Len(calls) = 4
    /\ calls[2].ret = "tx"
    /\ calls[3].note = "retry"
    /\ calls[3].resp # None
    /\ calls[3].resp[1].status_code = 402

C38_WitnessClient ==
    /\ ~Idle
    /\ Last.fn = "BotPaywallClient.buy_access"
    /\ Last.ret = "True"
    /\ Len(calls) = 4
    /\ calls[2].ret = "tx"

C38_WitnessNoPayment ==
    /\ ~Idle
    /\ Last.fn = "buy_access"
    /\ Last.ret = "False"
    /\ Len(calls) = 2
    /\ calls[1].resp # None
    /\ calls[1].resp[1] = Reply(402, Json("dict", Some(<<PaymentOption(Some("0xpay"),
                                                                        Some("0"))>>)))


Purchases == Events("buy_access")
RetryScrapes == {i \in Events("scrape") : calls[i].note = "retry"}

C37_Safe ==
    /\ Cardinality(Purchases) <= 1
    /\ \A b \in Purchases :
          b > 1 /\ calls[1].fn = "scrape" /\ calls[1].ret = "402"
    /\ (Len(calls) >= 1 /\ calls[1].fn = "scrape" /\ calls[1].ret # "402")
       => /\ run.pc = "exited" /\ Len(calls) = 1
          /\ run.exit = Some(IF calls[1].ret = "200" THEN 0 ELSE 1)
    /\ \A i \in RetryScrapes :
          \E b \in Purchases : b < i /\ calls[b].ret = "True"
    /\ Cardinality(RetryScrapes) <= run.max_retries
    /\ \A i \in RetryScrapes :
          IF i - 2 \in RetryScrapes
          THEN /\ calls[i - 1].fn = "time.sleep"
               /\ calls[i - 1].amount = retry_delay
               /\ calls[i].at - calls[i - 2].at = retry_delay
          ELSE /\ calls[i - 1].fn = "time.sleep"
               /\ calls[i - 1].amount = wait_after_payment
               /\ calls[i - 2].fn = "buy_access"
    /\ run.pc = "exited" => run.exit \in {Some(0), Some(1)}
    /\ run.exit = Some(0)
       => /\ Last.fn = "scrape" /\ Last.ret = "200"
          /\ \A i \in Events("scrape") : calls[i].ret = "200" => i = Len(calls)
    /\ run.pc = "exited" /\ Purchases # {} /\ RetryScrapes # {}
       => Last.fn = "scrape"

\* C37: main buys access only after an initial scrape that returned 402; an
\* initial 200 ends the run with exit code 0 and any other status with exit
\* code 1, both without a purchase; after a purchase at most max_retries
\* scrapes are made, retry_delay apart, and the run ends, with exit code 0
\* only if its last scrape returned 200.
C37_PurchaseOnlyAfter402 ==
    /\ []C37_Safe
    /\ (run.pc = "scrape") ~> (run.pc = "exited")

C37_Witness ==
    /\ run.pc = "exited" /\ run.exit = Some(1)
    /\ run.max_retries = MaxRetriesArg
    /\ Cardinality(RetryScrapes) = MaxRetriesArg
    /\ Cardinality(Events("time.sleep")) = MaxRetriesArg

C37_WitnessSuccess ==
    /\ run.pc = "exited" /\ run.exit = Some(0)
    /\ Cardinality(RetryScrapes) = 2
    /\ Events("make_blockchain_payment") # {}

C37_WitnessNoPurchase ==
    /\ run.pc = "exited" /\ run.exit = Some(0)
    /\ Purchases = {} /\ Len(calls) = 1


\* C39: a rule that ensure_ip_whitelisted recorded when it returned True is
\* in place for 60 seconds from then on unless cleanup() was called, also
\* when the rule was reused while an earlier removal was pending, and no rule
\* is asked to be removed twice.
C39_RecordedRuleStaysSixtySeconds ==
    /\ \A i \in 1..Len(wl.granted) :
          now < wl.granted[i].at + delay_seconds
          => wl.granted[i].rule \in wl.rules
    /\ \A i, j \in 1..Len(wl.deletes) :
          i # j => wl.deletes[i] # wl.deletes[j]


FuncCalls == Events("func")
Connects == Events("_connect_to_rpc")
RpcRuns == Events("_try_with_fallback_rpc")

\* C40: after an RPC error _try_with_fallback_rpc connects to another
\* endpoint than the failing one and retries the operation exactly once,
\* against the endpoint it connected to; another error is raised again with
\* no switch, and a failing fallback raises the original error.
C40_RetryAgainstNewEndpoint ==
    RpcRuns # {}
    => /\ is_rpc_error(calls[1].ret)
          => /\ Cardinality(Connects) = 1
             /\ \A k \in Connects :
                   /\ calls[k].ret = "" => calls[k].address \in Endpoints \ {calls[1].address}
                   /\ calls[k].ret = ""
                      => /\ Cardinality(FuncCalls) = 2
                         /\ \A r \in FuncCalls \ {1} :
                               /\ calls[r].address = calls[k].address
                               /\ calls[r].ret # "" => Last.note = calls[1].ret
                   /\ calls[k].ret # ""
                      => Cardinality(FuncCalls) = 1 /\ Last.note = calls[1].ret
       /\ (calls[1].ret # "" /\ ~is_rpc_error(calls[1].ret))
          => Connects = {} /\ Cardinality(FuncCalls) = 1 /\ Last.note = calls[1].ret

====
